---- MODULE Spec2Model ----
(***************************************************************************)
(* A model of the Meta-ads MCP server: the numeric normalizer and KPI      *)
(* calculator of utils.ts, the tool methods of MetaAdsTools (tools.ts) and *)
(* the tool handlers registered by startServer (server.ts).                *)
(*                                                                         *)
(* JavaScript numbers are modelled as exact values.  A finite number is    *)
(* the record [k |-> "fin", hi, lo, d] and stands for (hi * K + lo) / d,   *)
(* where K = 10^9 is the reciprocal of the 1e-9 floor used by the code:    *)
(* a division by 1e-9 moves the numerator into the hi limb, so quotients   *)
(* such as revenue / 1e-9 stay exact without leaving the integer range of  *)
(* the model checker.  |lo| stays far below K in every bounded input set   *)
(* of this module.  NaN, +Infinity and -Infinity are the kinds "nan",      *)
(* "inf" and "ninf"; the absent value (undefined) is the kind "undef".     *)
(* Binary floating-point rounding error is not modelled.                   *)
(***************************************************************************)
EXTENDS Integers, Sequences, FiniteSets, TLC

VARIABLES
    pc,        \* position of the operation in flight
    cfg,       \* MetaConfig.adAccountId, the configured default account
    tool,      \* name of the function or tool being executed
    args,      \* arguments as sent by the caller
    input,     \* input as received by the function or tool method
    request,   \* account id of the insights request issued, or NoRequest
    rows,      \* rows of the response (resp.data)
    result,    \* value returned
    error,     \* message of the error thrown, or NoError
    locals,    \* local variables of the loop in flight (MetaApi, bucket fold)
    calls      \* frames of the invocations in flight on one MetaAdsTools

vars == <<pc, cfg, tool, args, input, request, rows, result, error, locals, calls>>

NoRequest == <<"no request">>
NoError == "no error"
NoValue == [none |-> TRUE]

(***************************************************************************)
(* Numbers                                                                 *)
(***************************************************************************)
K == 1000000000

Abs(x) == IF x < 0 THEN -x ELSE x

Sgn(x) == IF x < 0 THEN -1 ELSE IF x > 0 THEN 1 ELSE 0

RECURSIVE GCD(_, _)
GCD(a, b) == IF b = 0 THEN a ELSE GCD(b, a % b)

\* (hi * K + lo) / d with the three integers divided by g, an exact divisor
Scaled(hi, lo, d, g) == [k |-> "fin", hi |-> hi \div g, lo |-> lo \div g, d |-> d \div g]

\* the finite number (hi * K + lo) / d in lowest terms, with a positive d
Norm(hi, lo, d) ==
    Scaled(hi, lo, d, (IF d < 0 THEN -1 ELSE 1) * GCD(GCD(Abs(hi), Abs(lo)), Abs(d)))

Dec(n, d) == Norm(0, n, d)

Whole(n) == Dec(n, 1)

Zero == Whole(0)

One == Whole(1)

NaN == [k |-> "nan", hi |-> 0, lo |-> 0, d |-> 1]

PosInf == [k |-> "inf", hi |-> 0, lo |-> 0, d |-> 1]

NegInf == [k |-> "ninf", hi |-> 0, lo |-> 0, d |-> 1]

Undefined == [k |-> "undef", hi |-> 0, lo |-> 0, d |-> 1]

\* Number.isFinite
IsFinite(x) == x.k = "fin"

\* x != null
Defined(x) == x.k # "undef"

\* an operand that arithmetic treats as NaN (undefined converts to NaN)
IsNaN(x) == x.k \in {"nan", "undef"}

\* the sign of the finite number a
Sign(a) == IF a.hi # 0 THEN Sgn(a.hi) ELSE Sgn(a.lo)

\* x === 0
IsZero(x) == IsFinite(x) /\ Sign(x) = 0

\* x > 0
Positive(x) == x.k = "inf" \/ (IsFinite(x) /\ Sign(x) > 0)

\* x < 0
Negative(x) == x.k = "ninf" \/ (IsFinite(x) /\ Sign(x) < 0)

Neg(a) ==
    IF IsNaN(a) THEN NaN
    ELSE IF a.k = "inf" THEN NegInf
    ELSE IF a.k = "ninf" THEN PosInf
    ELSE Norm(-a.hi, -a.lo, a.d)

Add(a, b) ==
    IF IsNaN(a) \/ IsNaN(b) THEN NaN
    ELSE IF ~IsFinite(a) THEN (IF ~IsFinite(b) /\ a.k # b.k THEN NaN ELSE a)
    ELSE IF ~IsFinite(b) THEN b
    ELSE Norm(a.hi * b.d + b.hi * a.d, a.lo * b.d + b.lo * a.d, a.d * b.d)

Sub(a, b) == Add(a, Neg(b))

\* a * n for a positive integer literal n
Times(a, n) ==
    IF IsNaN(a) THEN NaN
    ELSE IF ~IsFinite(a) THEN a
    ELSE Norm(a.hi * n, a.lo * n, a.d)

\* a / b.  A finite divisor whose denominator is a multiple of K (the 1e-9
\* floor) moves the numerator into the hi limb.
Quot(a, b) ==
    IF IsNaN(a) \/ IsNaN(b) THEN NaN
    ELSE IF ~IsFinite(a)
    THEN (IF ~IsFinite(b) THEN NaN
          ELSE IF Negative(b) THEN Neg(a) ELSE a)
    ELSE IF ~IsFinite(b) THEN Zero
    ELSE IF Sign(b) = 0
    THEN (IF Sign(a) = 0 THEN NaN ELSE IF Sign(a) > 0 THEN PosInf ELSE NegInf)
    ELSE IF b.d % K = 0 /\ a.hi = 0
    THEN Norm(a.lo * (b.d \div K), 0, a.d * b.lo)
    ELSE Norm(a.hi * b.d, a.lo * b.d, a.d * b.lo)

\* The order of n1/d1 and n2/d2 (-1, 0 or 1) for d1, d2 > 0, by integer parts
\* and then the reciprocals of the remainders, so that no product is formed.
RECURSIVE CmpFrac(_, _, _, _)
CmpFrac(n1, d1, n2, d2) ==
    LET q1 == n1 \div d1
        q2 == n2 \div d2
        r1 == n1 % d1
        r2 == n2 % d2
    IN  IF q1 # q2 THEN Sgn(q1 - q2)
        ELSE IF r1 = 0 \/ r2 = 0 THEN Sgn(r1 - r2)
        ELSE CmpFrac(d2, r2, d1, r1)

FirstNonZero(h, l) == IF h # 0 THEN h ELSE l

\* The order of two finite numbers: the hi limbs decide unless they are equal.
Cmp(a, b) == FirstNonZero(CmpFrac(a.hi, a.d, b.hi, b.d), CmpFrac(a.lo, a.d, b.lo, b.d))

\* a < b
Less(a, b) ==
    IF IsNaN(a) \/ IsNaN(b) THEN FALSE
    ELSE IF a.k = "inf" \/ b.k = "ninf" THEN FALSE
    ELSE IF a.k = "ninf" \/ b.k = "inf" THEN TRUE
    ELSE Cmp(a, b) < 0

\* Math.max
Max(a, b) ==
    IF IsNaN(a) \/ IsNaN(b) THEN NaN
    ELSE IF Less(a, b) THEN b ELSE a

\* Math.round: the nearest integer, a tie going to the larger one
\* (floor(x + 1/2)).  Raw values are decimals, so a.d divides K when a.hi # 0.
MathRound(a) ==
    IF IsNaN(a) THEN NaN
    ELSE IF ~IsFinite(a) THEN a
    ELSE IF a.hi % a.d = 0
    THEN Norm(a.hi \div a.d, (2 * a.lo + a.d) \div (2 * a.d), 1)
    ELSE Norm(0, a.hi * (K \div a.d) + (2 * a.lo + a.d) \div (2 * a.d), 1)

\* the literal 1e-9
Eps == Dec(1, K)

(***************************************************************************)
(* JavaScript values and strings.  A string is a sequence of characters;   *)
(* the elements "Infinity", "true" and "[object Object]" stand for that    *)
(* run of characters.                                                      *)
(***************************************************************************)
JsNull == [t |-> "null", num |-> Zero, str |-> <<>>]

JsUndefined == [t |-> "undefined", num |-> Zero, str |-> <<>>]

JsNumber(n) == [t |-> "number", num |-> n, str |-> <<>>]

JsString(s) == [t |-> "string", num |-> Zero, str |-> s]

JsBoolean == [t |-> "boolean", num |-> Zero, str |-> <<"true">>]

JsObject == [t |-> "object", num |-> Zero, str |-> <<"[object Object]">>]

Digits == {"0", "1", "2", "3", "4", "5", "6", "7", "8", "9"}

DigitVal(c) ==
    CASE c = "0" -> 0 [] c = "1" -> 1 [] c = "2" -> 2 [] c = "3" -> 3 [] c = "4" -> 4
      [] c = "5" -> 5 [] c = "6" -> 6 [] c = "7" -> 7 [] c = "8" -> 8 [] c = "9" -> 9

RECURSIVE Pow10(_)
Pow10(n) == IF n = 0 THEN 1 ELSE 10 * Pow10(n - 1)

RECURSIVE DigitsValue(_)
DigitsValue(s) ==
    IF s = <<>> THEN 0 ELSE 10 * DigitsValue(SubSeq(s, 1, Len(s) - 1)) + DigitVal(s[Len(s)])

\* String.prototype.trim over the whitespace character " "
RECURSIVE TrimStart(_)
TrimStart(s) == IF s # <<>> /\ s[1] = " " THEN TrimStart(Tail(s)) ELSE s

RECURSIVE TrimEnd(_)
TrimEnd(s) ==
    IF s # <<>> /\ s[Len(s)] = " " THEN TrimEnd(SubSeq(s, 1, Len(s) - 1)) ELSE s

Trim(s) == TrimEnd(TrimStart(s))

\* String(v)
StringOf(v) == v.str

\* s.replace(/[,]/g, "")
StripCommas(s) == SelectSeq(s, LAMBDA c : c # ",")

\* the decimal s, whose digits are ds and whose dots are at the positions dots
DecimalOf(s, dots, ds) ==
    IF (\A i \in 1..Len(s) : s[i] \in Digits \cup {"."}) /\ Cardinality(dots) <= 1 /\ ds # <<>>
    THEN Dec(DigitsValue(ds),
             Pow10(IF dots = {} THEN 0 ELSE Len(s) - (CHOOSE i \in dots : TRUE)))
    ELSE NaN

\* an unsigned decimal literal: digits, digits., digits.digits or .digits
UnsignedDecimal(s) ==
    DecimalOf(s, {i \in 1..Len(s) : s[i] = "."}, SelectSeq(s, LAMBDA c : c # "."))

\* the trimmed string t as a number
TrimmedToNumeric(t) ==
    IF t = <<>> THEN Zero
    ELSE IF t = <<"Infinity">> THEN PosInf
    ELSE IF t = <<"-", "Infinity">> THEN NegInf
    ELSE IF t[1] = "-" THEN Neg(UnsignedDecimal(Tail(t)))
    ELSE UnsignedDecimal(t)

\* Number(s): the StringToNumber conversion over decimal literals and Infinity
ToNumeric(s) == TrimmedToNumeric(Trim(s))

(***************************************************************************)
(* utils.ts                                                                *)
(***************************************************************************)
\* Number.isFinite(n) ? n : 0
FiniteOrZero(n) == IF IsFinite(n) THEN n ELSE Zero

toNumber(v) ==
    IF v.t \in {"null", "undefined"} THEN Zero
    ELSE IF v.t = "number" THEN v.num
    ELSE FiniteOrZero(ToNumeric(StripCommas(StringOf(v))))

safeDiv(num, den) == IF IsZero(den) THEN Zero ELSE Quot(num, den)

round2(n) == Quot(MathRound(Times(n, 100)), Whole(100))

\* line 24
kpiCtr(clicks, impressions) == safeDiv(clicks, impressions)

kpiCpcNoFloor(spend, clicks) == safeDiv(spend, clicks)

\* line 25
kpiCpc(spend, clicks) == safeDiv(spend, Max(clicks, One))

\* line 26
kpiCpm(spend, impressions) == Times(safeDiv(spend, Max(impressions, One)), 1000)

kpiCpaTruthy(spend, conversions) ==
    IF Defined(conversions) /\ ~IsZero(conversions)
    THEN safeDiv(spend, Max(conversions, One))
    ELSE Undefined

\* line 27
kpiCpa(spend, conversions) ==
    IF Defined(conversions) THEN safeDiv(spend, Max(conversions, One)) ELSE Undefined

kpiRoasNonNegative(spend, revenue) ==
    IF Defined(revenue) /\ ~Negative(revenue)
    THEN safeDiv(revenue, Max(spend, Eps))
    ELSE Undefined

\* line 28
kpiRoas(spend, revenue) ==
    IF Defined(revenue) /\ Positive(revenue)
    THEN safeDiv(revenue, Max(spend, Eps))
    ELSE Undefined

\* x != null ? round2(x) : undefined
round2IfDefined(x) == IF Defined(x) THEN round2(x) ELSE Undefined

\* x != null ? Math.round(x) : undefined
roundIfDefined(x) == IF Defined(x) THEN MathRound(x) ELSE Undefined

computeSpendKpis(spend, impressions, clicks, conversions, revenue) ==
    [spend |-> round2(spend),
     impressions |-> MathRound(impressions),
     clicks |-> MathRound(clicks),
     conversions |-> roundIfDefined(conversions),
     ctr |-> round2(kpiCtr(clicks, impressions)),
     cpc |-> round2(kpiCpc(spend, clicks)),
     cpm |-> round2(kpiCpm(spend, impressions)),
     cpa |-> round2IfDefined(kpiCpa(spend, conversions)),
     roas |-> round2IfDefined(kpiRoas(spend, revenue)),
     revenue |-> round2IfDefined(revenue)]

(***************************************************************************)
(* toNumber applied to one value                                           *)
(***************************************************************************)
MaxStrLen == 3

StrChars == {"0", "1", "5", ",", ".", "-", " ", "$", "Infinity"}

Strings == UNION {[1..n -> StrChars] : n \in 0..MaxStrLen}

ToNumberInputs ==
    {JsNull, JsUndefined, JsBoolean, JsObject}
        \cup {JsNumber(n) : n \in {Zero, Whole(7), Dec(-15, 10), NaN, PosInf, NegInf}}
        \cup {JsString(s) : s \in Strings}
        \cup {JsString(<<"1", ",", "2", "3", "4", ".", "5">>)}

InitToNumber ==
    /\ pc = "ready"
    /\ tool = "toNumber"
    /\ input \in ToNumberInputs
    /\ cfg = <<>>
    /\ args = NoValue
    /\ request = NoRequest
    /\ rows = <<>>
    /\ result = NoValue
    /\ error = NoError
    /\ locals = NoValue
    /\ calls = <<>>

CallToNumber ==
    /\ pc = "ready"
    /\ tool = "toNumber"
    /\ result' = toNumber(input)
    /\ pc' = "done"
    /\ UNCHANGED <<cfg, tool, args, input, request, rows, error, locals, calls>>

NextToNumber == CallToNumber

SpecToNumber == InitToNumber /\ [][NextToNumber]_vars

\* C3: toNumber never raises and returns a finite number for every input,
\* numeric NaN and +/-Infinity included; missing or invalid input yields 0.
C3_ToNumberFinite ==
    (tool = "toNumber" /\ pc = "done") =>
        /\ IsFinite(result)
        /\ (input.t \in {"null", "undefined", "object", "boolean"} => result = Zero)

(***************************************************************************)
(* computeSpendKpis applied to one argument list                           *)
(***************************************************************************)
MaxUnits == 2

KpiSpend == {Dec(c, 100) : c \in 0..MaxUnits} \cup {Whole(100), Dec(3, 2), Whole(-1)}

KpiImpressions == {Whole(n) : n \in 0..MaxUnits} \cup {Whole(10), Whole(1000)}

KpiClicks == {Whole(n) : n \in 0..MaxUnits} \cup {Whole(5), Whole(50), Dec(1, 2)}

KpiConversions == {Undefined} \cup {Whole(n) : n \in 0..MaxUnits} \cup {Whole(5)}

KpiRevenue == {Undefined, Zero, Whole(-1), Dec(1, 100), Whole(1), Whole(500)}

InitKpis ==
    /\ pc = "ready"
    /\ tool = "computeSpendKpis"
    /\ input \in [spend : KpiSpend, impressions : KpiImpressions, clicks : KpiClicks,
                  conversions : KpiConversions, revenue : KpiRevenue]
    /\ cfg = <<>>
    /\ args = NoValue
    /\ request = NoRequest
    /\ rows = <<>>
    /\ result = NoValue
    /\ error = NoError
    /\ locals = NoValue
    /\ calls = <<>>

CallComputeSpendKpis ==
    /\ pc = "ready"
    /\ tool = "computeSpendKpis"
    /\ result' = computeSpendKpis(input.spend, input.impressions, input.clicks,
                                  input.conversions, input.revenue)
    /\ pc' = "done"
    /\ UNCHANGED <<cfg, tool, args, input, request, rows, error, locals, calls>>

NextKpis == CallComputeSpendKpis

SpecKpis == InitKpis /\ [][NextKpis]_vars

KpisDone == tool = "computeSpendKpis" /\ pc = "done"

\* x is a plain number of whole hundredths
IsHundredths(x) == IsFinite(x) /\ x.hi = 0 /\ 100 % x.d = 0

\* the number of hundredths in x
Hundredths(x) == (x.lo * 100) \div x.d

\* the number of hundredths nearest to n / d (d > 0), a tie going up
NearestHundredths(n, d) == (200 * n + d) \div (2 * d)

\* C4: for non-negative spend, impressions and clicks ctr, cpc and cpm are
\* always present and equal round2(clicks/impressions, 0 when impressions is 0),
\* round2(spend/max(clicks,1)) and round2(spend/max(impressions,1)*1000); all
\* zero inputs without conversions and revenue give three zeros and no cpa or
\* roas; (100, 1000, 50, 5, 500) gives 0.05, 2, 100, 20 and 5.
C4_BaseKpis ==
    KpisDone =>
        LET s == input.spend
            i == input.impressions
            c == input.clicks
            cn == IF c.lo < c.d THEN 1 ELSE c.lo
            cd == IF c.lo < c.d THEN 1 ELSE c.d
            in == IF i.lo < i.d THEN 1 ELSE i.lo
            id == IF i.lo < i.d THEN 1 ELSE i.d
        IN  /\ (s.lo >= 0 /\ i.lo >= 0 /\ c.lo >= 0) =>
                /\ IsHundredths(result.ctr) /\ IsHundredths(result.cpc)
                /\ IsHundredths(result.cpm)
                /\ Hundredths(result.ctr) =
                       (IF i.lo = 0 THEN 0 ELSE NearestHundredths(c.lo * i.d, c.d * i.lo))
                /\ Hundredths(result.cpc) = NearestHundredths(s.lo * cd, s.d * cn)
                /\ Hundredths(result.cpm) = NearestHundredths(1000 * s.lo * id, s.d * in)
            /\ (s = Zero /\ i = Zero /\ c = Zero /\ ~Defined(input.conversions)
                    /\ ~Defined(input.revenue)) =>
                /\ result.ctr = Zero /\ result.cpc = Zero /\ result.cpm = Zero
                /\ ~Defined(result.cpa) /\ ~Defined(result.roas)
            /\ (s = Whole(100) /\ i = Whole(1000) /\ c = Whole(50)
                    /\ input.conversions = Whole(5) /\ input.revenue = Whole(500)) =>
                /\ result.ctr = Dec(5, 100) /\ result.cpc = Whole(2)
                /\ result.cpm = Whole(100) /\ result.cpa = Whole(20)
                /\ result.roas = Whole(5)

C4_Witness ==
    /\ KpisDone
    /\ input = [spend |-> Whole(100), impressions |-> Whole(1000), clicks |-> Whole(50),
                conversions |-> Whole(5), revenue |-> Whole(500)]
    /\ result.cpc = Whole(2)

\* C5: cpa is present exactly when a defined conversions argument was passed;
\* with conversions = 0 passed, cpa is present and equals round2(spend / 1).
C5_CpaPresence ==
    KpisDone =>
        /\ Defined(result.cpa) <=> Defined(input.conversions)
        /\ input.conversions = Zero =>
               /\ IsHundredths(result.cpa)
               /\ Hundredths(result.cpa) = NearestHundredths(input.spend.lo, input.spend.d)
        /\ (input.conversions = Zero /\ input.spend = Whole(100)) => result.cpa = Whole(100)

C5_Witness ==
    /\ KpisDone
    /\ input.conversions = Zero
    /\ input.spend = Whole(100)
    /\ result.cpa = Whole(100)

\* C6: roas is present exactly when revenue was passed and is strictly
\* positive; when present it is round2(revenue / max(spend, 1e-9)).
C6_RoasPresence ==
    KpisDone =>
        LET s == input.spend
            r == input.revenue
        IN  /\ Defined(result.roas) <=> (Defined(r) /\ r.lo > 0)
            /\ (Defined(r) /\ r.lo > 0 /\ s.lo > 0) =>
                   /\ IsHundredths(result.roas)
                   /\ Hundredths(result.roas) = NearestHundredths(r.lo * s.d, r.d * s.lo)
            /\ (Defined(r) /\ r.lo > 0 /\ s.lo <= 0) =>
                   /\ IsFinite(result.roas)
                   /\ result.roas.lo = 0
                   /\ result.roas.hi * r.d = r.lo * result.roas.d

C6_Witness ==
    /\ KpisDone
    /\ input.revenue = Dec(1, 100)
    /\ input.spend = Zero
    /\ result.roas = Norm(1, 0, 100)

(***************************************************************************)
(* tools.ts: MetaAdsTools.accountIdOrThrow                                 *)
(***************************************************************************)
\* an optional string: absent (undefined) or the string s
Absent == [has |-> FALSE, s |-> <<>>]

Str(s) == [has |-> TRUE, s |-> s]

\* !x for an optional string
Falsy(x) == ~x.has \/ x.s = <<>>

ActPrefix == <<"a", "c", "t", "_">>

\* s.startsWith(p)
StartsWith(s, p) == Len(s) >= Len(p) /\ SubSeq(s, 1, Len(p)) = p

MissingIdError == "ad_account_id is required"

\* adAccountId || this.cfg.adAccountId
rawAccountId(adAccountId, cfgAdAccountId) ==
    IF Falsy(adAccountId) THEN cfgAdAccountId ELSE adAccountId.s

resolveAccountIdAlwaysPrefixed(raw, id) ==
    IF raw = <<>> \/ id = <<>>
    THEN [ok |-> FALSE, id |-> <<>>]
    ELSE [ok |-> TRUE, id |-> ActPrefix \o id]

\* [ok |-> FALSE] when the method throws, else the account id returned
\* lines 39-45, for raw and id = raw.trim()
resolveAccountId(raw, id) ==
    IF raw = <<>> \/ id = <<>>
    THEN [ok |-> FALSE, id |-> <<>>]
    ELSE [ok |-> TRUE, id |-> IF StartsWith(id, ActPrefix) THEN id ELSE ActPrefix \o id]

\* [ok |-> FALSE] when the method throws, else the account id returned
accountIdOrThrow(adAccountId, cfgAdAccountId) ==
    resolveAccountId(rawAccountId(adAccountId, cfgAdAccountId),
                     Trim(rawAccountId(adAccountId, cfgAdAccountId)))

(***************************************************************************)
(* server.ts: the input shapes and the registered tool handlers            *)
(***************************************************************************)
AnalysisTools ==
    {"get_account_performance_summary", "analyze_campaign_performance",
     "get_audience_performance_breakdown", "analyze_creative_effectiveness",
     "get_spend_allocation_insights", "analyze_conversion_funnel",
     "get_ad_delivery_insights", "calculate_advanced_attribution"}

\* the keys of the Zod raw shape registered for each tool
ShapeKeys(t) ==
    CASE t = "get_account_performance_summary" ->
             {"ad_account_id", "date_range", "currency", "attribution_setting"}
      [] t = "analyze_campaign_performance" ->
             {"campaign_ids", "date_range", "performance_thresholds"}
      [] t = "get_audience_performance_breakdown" ->
             {"level", "ids", "date_range", "breakdowns"}
      [] t = "analyze_creative_effectiveness" -> {"ad_ids", "date_range", "include_preview"}
      [] t = "get_spend_allocation_insights" -> {"date_range", "level"}
      [] t = "analyze_conversion_funnel" -> {"date_range", "attribution_window_days"}
      [] t = "get_ad_delivery_insights" -> {"date_range", "placements"}
      [] t = "calculate_advanced_attribution" -> {"date_range", "assumed_ltv", "cac_target"}

\* the value of an absent key of each kind
AbsentArg(key) ==
    CASE key = "ad_account_id" -> Absent
      [] key = "date_range" -> FALSE
      [] key = "performance_thresholds" -> [cpa |-> Undefined, roas |-> Undefined]
      [] key = "breakdowns" -> <<>>
      [] key = "placements" -> <<>>
      [] key = "assumed_ltv" -> Undefined
      [] key = "cac_target" -> Undefined

ArgKeys ==
    {"ad_account_id", "date_range", "performance_thresholds", "breakdowns", "placements",
     "assumed_ltv", "cac_target"}

\* z.object(shape).parse(args): a key the shape does not name is stripped from
\* the parsed object; the required date_range must be present.
ZodParse(t, a) ==
    [ok |-> a.date_range,
     value |-> [key \in ArgKeys |-> IF key \in ShapeKeys(t) THEN a[key] ELSE AbsentArg(key)]]

(***************************************************************************)
(* tools.ts: report rows and the extractors                                *)
(*                                                                         *)
(* A row is a record of loosely typed values: spend, impressions and       *)
(* clicks are JavaScript values, actions and action_values are             *)
(* [isArray, items] with items a sequence of [action_type, value], and the *)
(* breakdown dimensions and the objective are optional strings.  The field *)
(* id stands for the entity-id field of the requested level, name for its  *)
(* name field.                                                             *)
(***************************************************************************)
\* s.includes(sub)
Includes(s, sub) ==
    \E i \in 1..(Len(s) - Len(sub) + 1) : SubSeq(s, i, i + Len(sub) - 1) = sub

\* String(x ?? "") for an optional string
StringOrEmpty(x) == IF x.has THEN x.s ELSE <<>>

getActions(r) == IF r.actions.isArray THEN r.actions.items ELSE <<>>

getActionValues(r) == IF r.action_values.isArray THEN r.action_values.items ELSE <<>>

Purchase == <<"purchase">>

LastValue(list, hits) ==
    IF hits = {} THEN JsUndefined ELSE list[CHOOSE i \in hits : \A j \in hits : j <= i].value

\* list[i].value for the least i in hits, undefined when hits is empty
FirstValue(list, hits) ==
    IF hits = {} THEN JsUndefined ELSE list[CHOOSE i \in hits : \A j \in hits : i <= j].value

\* list.find(a => String(a.action_type ?? "").includes("purchase"))?.value
FindPurchaseValue(list) ==
    FirstValue(list,
               {i \in 1..Len(list) : Includes(StringOrEmpty(list[i].action_type), Purchase)})

purchaseCount(r) == toNumber(FindPurchaseValue(getActions(r)))

purchaseValue(r) == toNumber(FindPurchaseValue(getActionValues(r)))

OrUndefinedIfNullish(x) == x

\* x || undefined for a number: 0 and NaN are falsy
OrUndefined(x) == IF IsZero(x) \/ IsNaN(x) THEN Undefined ELSE x

\* x ?? 0
OrZero(x) == IF Defined(x) THEN x ELSE Zero

\* x ?? Number.POSITIVE_INFINITY
OrInfinity(x) == IF Defined(x) THEN x ELSE PosInf

RECURSIVE SumSeq(_)
SumSeq(s) == IF s = <<>> THEN Zero ELSE Add(SumSeq(SubSeq(s, 1, Len(s) - 1)), s[Len(s)])

\* arr.slice(0, n)
Take(s, n) == SubSeq(s, 1, IF Len(s) < n THEN Len(s) ELSE n)

\* arr.slice(-n)
TakeLast(s, n) == SubSeq(s, IF Len(s) < n THEN 1 ELSE Len(s) - n + 1, Len(s))

(***************************************************************************)
(* Array.prototype.sort.  The comparator's value v is used as SortCompare  *)
(* uses it: NaN counts as 0.  The sort is stable, so for a consistent      *)
(* comparator the result is the one an insertion sort gives.               *)
(***************************************************************************)
\* (a, b) => (b.kpis.roas ?? 0) - (a.kpis.roas ?? 0)
roasDesc(a, b) == Sub(OrZero(b.kpis.roas), OrZero(a.kpis.roas))

cpaAscByZero(a, b) == Sub(OrZero(a.kpis.cpa), OrZero(b.kpis.cpa))

\* (a, b) => (a.kpis.cpa ?? Infinity) - (b.kpis.cpa ?? Infinity)
cpaAsc(a, b) == Sub(OrInfinity(a.kpis.cpa), OrInfinity(b.kpis.cpa))

\* (a, b) => (a.kpis.roas ?? Infinity) - (b.kpis.roas ?? Infinity)
roasAsc(a, b) == Sub(OrInfinity(a.kpis.roas), OrInfinity(b.kpis.roas))

Comparator(order, a, b) ==
    CASE order = "roasDesc" -> roasDesc(a, b)
      [] order = "cpaAsc" -> cpaAsc(a, b)
      [] order = "roasAsc" -> roasAsc(a, b)

\* the order a comparator value v stands for
OrderOf(v) == IF IsNaN(v) THEN 0 ELSE IF Positive(v) THEN 1 ELSE IF Negative(v) THEN -1 ELSE 0

SortCompare(order, a, b) == OrderOf(Comparator(order, a, b))

RECURSIVE InsertSorted(_, _, _)
InsertSorted(sorted, x, order) ==
    IF sorted = <<>> THEN <<x>>
    ELSE IF SortCompare(order, sorted[Len(sorted)], x) > 0
    THEN Append(InsertSorted(SubSeq(sorted, 1, Len(sorted) - 1), x, order), sorted[Len(sorted)])
    ELSE Append(sorted, x)

RECURSIVE SortBy(_, _)
SortBy(s, order) ==
    IF s = <<>> THEN <<>>
    ELSE InsertSorted(SortBy(SubSeq(s, 1, Len(s) - 1), order), s[Len(s)], order)

(***************************************************************************)
(* tools.ts: the analyses, each applied to the parsed input and the rows   *)
(* of the response.  An enriched entity {...r, kpis} is kept as its id,    *)
(* its name and its KPI set.                                               *)
(***************************************************************************)
\* computeSpendKpis(spend, imp, clk, conv || undefined, rev || undefined)
rowKpis(r) ==
    computeSpendKpis(toNumber(r.spend), toNumber(r.impressions), toNumber(r.clicks),
                     OrUndefined(purchaseCount(r)), OrUndefined(purchaseValue(r)))

entityOf(r) == [id |-> r.id, name |-> r.name, kpis |-> rowKpis(r)]

enrich(rws) == [i \in 1..Len(rws) |-> entityOf(rws[i])]

isUnderperformerInclusive(e, thresholds) ==
    \/ Defined(thresholds.roas) /\ ~Less(thresholds.roas, OrZero(e.kpis.roas))
    \/ Defined(thresholds.cpa) /\ ~Less(OrInfinity(e.kpis.cpa), thresholds.cpa)

\* the filter of analyze_campaign_performance (lines 146-152)
isUnderperformer(e, thresholds) ==
    LET roas == OrZero(e.kpis.roas)
        cpa == OrInfinity(e.kpis.cpa)
        failRoas == Defined(thresholds.roas) /\ Less(roas, thresholds.roas)
        failCpa == Defined(thresholds.cpa) /\ Less(thresholds.cpa, cpa)
    IN  failRoas \/ failCpa

underperformersOf(enriched, thresholds) ==
    SelectSeq(enriched, LAMBDA e : isUnderperformer(e, thresholds))

analyze_campaign_performance(inp, rws) ==
    LET enriched == enrich(rws)
        rankedByRoas == SortBy(enriched, "roasDesc")
        rankedByCpa == SortBy(enriched, "cpaAsc")
        underperformers == underperformersOf(enriched, inp.performance_thresholds)
    IN  [raw_data |-> rws,
         analysis |-> [rankedByRoas |-> rankedByRoas, rankedByCpa |-> rankedByCpa],
         recommendations |->
             [reallocate_budget_from |-> Take(underperformers, 5),
              to_top_campaigns |-> Take(rankedByRoas, 5)]]

DefaultBreakdowns == <<"age", "gender", "publisher_platform">>

DimensionFields == {"age", "gender", "publisher_platform", "platform_position"}

\* String(r[b] ?? "")
dimensionValue(r, b) == IF b \in DimensionFields THEN StringOrEmpty(r[b]) ELSE <<>>

\* parts.join("|")
RECURSIVE JoinPipe(_)
JoinPipe(parts) ==
    IF parts = <<>> THEN <<>>
    ELSE IF Len(parts) = 1 THEN parts[1]
    ELSE JoinPipe(SubSeq(parts, 1, Len(parts) - 1)) \o <<"|">> \o parts[Len(parts)]

\* breakdowns.map((b) => String(r[b] ?? "")).join("|")
breakdownKey(r, breakdowns) ==
    JoinPipe([i \in 1..Len(breakdowns) |-> dimensionValue(r, breakdowns[i])])

ZeroBucket == [spend |-> Zero, impressions |-> Zero, clicks |-> Zero,
               conversions |-> Zero, revenue |-> Zero]

overwriteBucket(cur, r) ==
    [spend |-> toNumber(r.spend), impressions |-> toNumber(r.impressions),
     clicks |-> toNumber(r.clicks), conversions |-> purchaseCount(r),
     revenue |-> purchaseValue(r)]

addToBucket(cur, r) ==
    [spend |-> Add(cur.spend, toNumber(r.spend)),
     impressions |-> Add(cur.impressions, toNumber(r.impressions)),
     clicks |-> Add(cur.clicks, toNumber(r.clicks)),
     conversions |-> Add(cur.conversions, purchaseCount(r)),
     revenue |-> Add(cur.revenue, purchaseValue(r))]

\* the indices of the entries of byKey under key
keyHits(byKey, key) == {i \in 1..Len(byKey) : byKey[i].key = key}

\* byKey.set(key, cur) with cur = (byKey.get(key) ?? zeroes) plus the row r
setBucket(byKey, key, r, hit) ==
    IF hit = {}
    THEN Append(byKey, [key |-> key, value |-> addToBucket(ZeroBucket, r)])
    ELSE [byKey EXCEPT ![CHOOSE i \in hit : TRUE].value = addToBucket(@, r)]

\* one iteration of the loop over the rows: the Map byKey after the row r
foldRow(byKey, r, breakdowns) ==
    setBucket(byKey, breakdownKey(r, breakdowns), r,
              keyHits(byKey, breakdownKey(r, breakdowns)))

\* the Map byKey after the loop over rws, as its entries in insertion order
RECURSIVE foldByKey(_, _)
foldByKey(rws, breakdowns) ==
    IF rws = <<>> THEN <<>>
    ELSE foldRow(foldByKey(SubSeq(rws, 1, Len(rws) - 1), breakdowns), rws[Len(rws)],
                 breakdowns)

breakdownsOf(inp) == IF Len(inp.breakdowns) > 0 THEN inp.breakdowns ELSE DefaultBreakdowns

\* ([k, v]) => ({key: k, kpis: computeSpendKpis(...)})
bucketKpis(entry) ==
    [key |-> entry.key,
     kpis |-> computeSpendKpis(entry.value.spend, entry.value.impressions,
                  entry.value.clicks, entry.value.conversions, entry.value.revenue)]

\* the value returned once the Map byKey is complete
audienceResult(rws, breakdowns, byKey) ==
    [raw_data |-> rws,
     analysis |->
         [breakdowns |-> breakdowns,
          ranked |-> SortBy([i \in 1..Len(byKey) |-> bucketKpis(byKey[i])], "roasDesc")]]

get_audience_performance_breakdown(inp, rws) ==
    audienceResult(rws, breakdownsOf(inp), foldByKey(rws, breakdownsOf(inp)))

spendShareUnrounded(spend, totalSpend) == Times(Quot(spend, Max(totalSpend, Eps)), 100)

\* round2((x.kpis.spend / Math.max(totalSpend, 1e-9)) * 100)
spendShare(spend, totalSpend) == round2(Times(Quot(spend, Max(totalSpend, Eps)), 100))

get_spend_allocation_insights(inp, rws) ==
    LET items == enrich(rws)
        totalSpend == SumSeq([i \in 1..Len(items) |-> items[i].kpis.spend])
        allocation == [i \in 1..Len(items) |->
                          [id |-> items[i].id, name |-> items[i].name, kpis |-> items[i].kpis,
                           spend_share |-> spendShare(items[i].kpis.spend, totalSpend)]]
        byRoasDesc == SortBy(allocation, "roasDesc")
        byRoasAsc == SortBy(allocation, "roasAsc")
    IN  [raw_data |-> rws,
         analysis |-> [allocation |-> allocation, totalSpend |-> totalSpend],
         recommendations |->
             [reallocate_from |-> Take(byRoasAsc, 5), reallocate_to |-> Take(byRoasDesc, 5)]]

\* toNumber(a.value) of each entry of list, in order
valuesOf(list) == [i \in 1..Len(list) |-> toNumber(list[i].value)]

containsActionSum(r, t) ==
    SumSeq(valuesOf(SelectSeq(getActions(r),
                              LAMBDA a : Includes(StringOrEmpty(a.action_type), t))))

\* the sum, over the actions of r, of the values whose type is exactly t
exactActionSum(r, t) ==
    SumSeq(valuesOf(SelectSeq(getActions(r), LAMBDA a : StringOrEmpty(a.action_type) = t)))

stageCount(rws, t) == SumSeq([i \in 1..Len(rws) |-> exactActionSum(rws[i], t)])

FunnelStages == <<<<"view_content">>, <<"add_to_cart">>, <<"initiate_checkout">>, <<"purchase">>>>

\* round2(1 - f.count / Math.max(funnel[i - 1].count, 1e-9))
dropoff(count, previous) == round2(Sub(One, Quot(count, Max(previous, Eps))))

dropoffsOf(counts) ==
    [i \in 1..Len(counts) |-> IF i = 1 THEN Zero ELSE dropoff(counts[i], counts[i - 1])]

\* Math.max(...list) of a non-empty list
RECURSIVE MaxOf(_)
MaxOf(list) ==
    IF Len(list) = 1 THEN Max(NegInf, list[1])
    ELSE Max(MaxOf(SubSeq(list, 1, Len(list) - 1)), list[Len(list)])

lastIndexOf(list, x) ==
    LET hits == {i \in 1..Len(list) : IsFinite(x) /\ list[i] = x}
    IN  IF hits = {} THEN -1 ELSE (CHOOSE i \in hits : \A j \in hits : j <= i) - 1

\* list.indexOf(x): the 0-based index of the first element strictly equal to
\* x, or -1 (NaN equals nothing)
indexOf(list, x) ==
    LET hits == {i \in 1..Len(list) : ~IsNaN(x) /\ list[i] = x}
    IN  IF hits = {} THEN -1 ELSE (CHOOSE i \in hits : \A j \in hits : i <= j) - 1

analyze_conversion_funnel(inp, rws) ==
    LET counts == [i \in 1..4 |-> stageCount(rws, FunnelStages[i])]
        spend == SumSeq([i \in 1..Len(rws) |-> toNumber(rws[i].spend)])
        imp == SumSeq([i \in 1..Len(rws) |-> toNumber(rws[i].impressions)])
        clk == SumSeq([i \in 1..Len(rws) |-> toNumber(rws[i].clicks)])
        revenue == SumSeq([i \in 1..Len(rws) |-> purchaseValue(rws[i])])
        funnel == [i \in 1..4 |->
                      [stage |-> <<"ViewContent", "AddToCart", "InitiateCheckout", "Purchase">>[i],
                       count |-> counts[i]]]
        dropoffs == dropoffsOf(counts)
        kpis == computeSpendKpis(spend, imp, clk, counts[4], revenue)
    IN  [raw_data |-> rws,
         analysis |-> [funnel |-> funnel, dropoffs |-> dropoffs, kpis |-> kpis],
         recommendations |-> [focus_stage |-> indexOf(dropoffs, MaxOf(dropoffs))]]

\* s.toLowerCase(), character by character
LowerChar(c) ==
    CASE c = "Facebook" -> "facebook"
      [] c = "Video_View" -> "video_view"
      [] OTHER -> c

ToLowerCase(s) == [i \in 1..Len(s) |-> LowerChar(s[i])]

VideoSignals ==
    {<<"video_view">>, <<"thruplay">>, <<"video_play">>, <<"video_10s_views">>,
     <<"video_continuous_2_sec_watched_actions">>}

looksVideo(r) ==
    \E i \in 1..Len(getActions(r)) :
        \E sig \in VideoSignals :
            Includes(ToLowerCase(StringOrEmpty(getActions(r)[i].action_type)), sig)

\* x || 0 for an optional number
OrZeroIfFalsy(x) == IF ~Defined(x) \/ IsNaN(x) \/ IsZero(x) THEN Zero ELSE x

\* the values of seq without repetition, in the order of first occurrence
RECURSIVE Distinct(_)
Distinct(seq) ==
    IF seq = <<>> THEN <<>>
    ELSE LET prev == Distinct(SubSeq(seq, 1, Len(seq) - 1))
         IN  IF \E i \in 1..Len(prev) : prev[i] = seq[Len(seq)]
             THEN prev
             ELSE Append(prev, seq[Len(seq)])

get_account_performance_summary(inp, rws, accountId) ==
    LET spend == SumSeq([i \in 1..Len(rws) |-> toNumber(rws[i].spend)])
        impressions == SumSeq([i \in 1..Len(rws) |-> toNumber(rws[i].impressions)])
        clicks == SumSeq([i \in 1..Len(rws) |-> toNumber(rws[i].clicks)])
        conversions == SumSeq([i \in 1..Len(rws) |-> purchaseCount(rws[i])])
        revenue == SumSeq([i \in 1..Len(rws) |-> purchaseValue(rws[i])])
        kpis == computeSpendKpis(spend, impressions, clicks,
                                 OrUndefined(conversions), OrUndefined(revenue))
        named == SelectSeq(rws, LAMBDA r : ~Falsy(r.objective))
    IN  [raw_data |-> rws,
         analysis |-> [kpis |-> kpis, days |-> Len(rws),
                       objectives |-> Distinct([i \in 1..Len(named) |-> named[i].objective.s])],
         meta |-> [accountId |-> accountId]]

creativeItem(r) ==
    [id |-> r.id, name |-> r.name,
     creativeType |-> IF looksVideo(r) THEN "video" ELSE "image",
     kpis |-> rowKpis(r)]

\* the object byType after the loop over items, as its entries in insertion order
RECURSIVE foldByType(_)
foldByType(items) ==
    IF items = <<>> THEN <<>>
    ELSE LET prev == foldByType(SubSeq(items, 1, Len(items) - 1))
             it == items[Len(items)]
             hit == {i \in 1..Len(prev) : prev[i].type = it.creativeType}
             add(acc) == [spend |-> Add(acc.spend, it.kpis.spend),
                          imp |-> Add(acc.imp, it.kpis.impressions),
                          clk |-> Add(acc.clk, it.kpis.clicks),
                          conv |-> Add(acc.conv, OrZeroIfFalsy(it.kpis.conversions)),
                          rev |-> Add(acc.rev, OrZeroIfFalsy(it.kpis.revenue))]
             zero == [spend |-> Zero, imp |-> Zero, clk |-> Zero, conv |-> Zero, rev |-> Zero]
         IN  IF hit = {}
             THEN Append(prev, [type |-> it.creativeType, value |-> add(zero)])
             ELSE LET i == CHOOSE i \in hit : TRUE
                  IN  [prev EXCEPT ![i].value = add(@)]

analyze_creative_effectiveness(inp, rws) ==
    LET items == [i \in 1..Len(rws) |-> creativeItem(rws[i])]
        byType == foldByType(items)
        typeSummary == [i \in 1..Len(byType) |->
                           [type |-> byType[i].type,
                            kpis |-> computeSpendKpis(byType[i].value.spend, byType[i].value.imp,
                                         byType[i].value.clk, byType[i].value.conv,
                                         byType[i].value.rev)]]
    IN  [raw_data |-> rws,
         analysis |-> [items |-> items, typeSummary |-> typeSummary],
         recommendations |-> [top_creatives |-> Take(SortBy(items, "roasDesc"), 5)]]

\* s.split("|")
RECURSIVE SplitPipe(_)
SplitPipe(s) ==
    LET bars == {i \in 1..Len(s) : s[i] = "|"}
    IN  IF bars = {} THEN <<s>>
        ELSE LET i == CHOOSE i \in bars : \A j \in bars : i <= j
             IN  <<SubSeq(s, 1, i - 1)>> \o SplitPipe(SubSeq(s, i + 1, Len(s)))

\* `${String(r.publisher_platform ?? "")}|${String(r.platform_position ?? "")}`
deliveryKey(r) ==
    StringOrEmpty(r.publisher_platform) \o <<"|">> \o StringOrEmpty(r.platform_position)

\* the Map byKey of get_ad_delivery_insights, as its entries in insertion order
RECURSIVE foldDelivery(_)
foldDelivery(rws) ==
    IF rws = <<>> THEN <<>>
    ELSE LET prev == foldDelivery(SubSeq(rws, 1, Len(rws) - 1))
             r == rws[Len(rws)]
             key == deliveryKey(r)
             hit == {i \in 1..Len(prev) : prev[i].key = key}
             add(cur) == [spend |-> Add(cur.spend, toNumber(r.spend)),
                          imp |-> Add(cur.imp, toNumber(r.impressions)),
                          clk |-> Add(cur.clk, toNumber(r.clicks))]
         IN  IF hit = {}
             THEN Append(prev, [key |-> key,
                                value |-> add([spend |-> Zero, imp |-> Zero, clk |-> Zero])])
             ELSE LET i == CHOOSE i \in hit : TRUE
                  IN  [prev EXCEPT ![i].value = add(@)]

deliveryItemWithPurchases(entry) ==
    LET parts == SplitPipe(entry.key)
    IN  [platform |-> parts[1], position |-> parts[2],
         kpis |-> computeSpendKpis(entry.value.spend, entry.value.imp, entry.value.clk,
                                   entry.value.clk, entry.value.spend)]

deliveryItem(entry) ==
    LET parts == SplitPipe(entry.key)
    IN  [platform |-> parts[1], position |-> parts[2],
         kpis |-> computeSpendKpis(entry.value.spend, entry.value.imp, entry.value.clk,
                                   Undefined, Undefined)]

get_ad_delivery_insights(inp, rws) ==
    LET byKey == foldDelivery(rws)
        all == [i \in 1..Len(byKey) |-> deliveryItem(byKey[i])]
        wanted == {ToLowerCase(inp.placements[i]) : i \in 1..Len(inp.placements)}
        kept == IF Len(inp.placements) > 0
                THEN SelectSeq(all, LAMBDA x : ToLowerCase(x.platform) \in wanted)
                ELSE all
        items == SortBy(kept, "roasDesc")
    IN  [raw_data |-> rws,
         analysis |-> [items |-> items],
         recommendations |->
             [shift_impressions_to |-> Take(items, 3), reduce_in |-> TakeLast(items, 3)]]

\* list.find((a) => a.action_type === "purchase")?.value
FindExactPurchaseValue(list) ==
    LET hits == {i \in 1..Len(list) : list[i].action_type = Str(Purchase)}
    IN  IF hits = {} THEN JsUndefined
        ELSE list[CHOOSE i \in hits : \A j \in hits : i <= j].value

calculate_advanced_attribution(inp, rws) ==
    LET spend == SumSeq([i \in 1..Len(rws) |-> toNumber(rws[i].spend)])
        purchases == SumSeq([i \in 1..Len(rws) |->
                                toNumber(FindExactPurchaseValue(getActions(rws[i])))])
        revenue == SumSeq([i \in 1..Len(rws) |->
                              toNumber(FindExactPurchaseValue(getActionValues(rws[i])))])
        cac == IF Positive(purchases) THEN round2(Quot(spend, purchases)) ELSE Zero
        roas == IF Positive(spend) THEN round2(Quot(revenue, spend)) ELSE Zero
        ltv == IF Defined(inp.assumed_ltv) THEN inp.assumed_ltv
               ELSE IF Positive(purchases)
               THEN Times(round2(Quot(revenue, Max(purchases, One))), 3)
               ELSE Zero
        clv_to_cac == IF Positive(cac) THEN round2(Quot(ltv, cac)) ELSE Zero
    IN  [raw_data |-> rws,
         analysis |-> [spend |-> spend, purchases |-> purchases, revenue |-> revenue,
                       cac |-> cac, roas |-> roas, ltv |-> ltv, clv_to_cac |-> clv_to_cac],
         recommendations |->
             [cac_ok |-> IF Defined(inp.cac_target)
                         THEN (IF ~IsNaN(cac) /\ ~Less(inp.cac_target, cac) THEN "true" ELSE "false")
                         ELSE "undefined"]]

\* the tool method's computation after the response arrived
Analyse(t, inp, rws, accountId) ==
    CASE t = "get_account_performance_summary" ->
             get_account_performance_summary(inp, rws, accountId)
      [] t = "analyze_campaign_performance" -> analyze_campaign_performance(inp, rws)
      [] t = "get_audience_performance_breakdown" -> get_audience_performance_breakdown(inp, rws)
      [] t = "analyze_creative_effectiveness" -> analyze_creative_effectiveness(inp, rws)
      [] t = "get_spend_allocation_insights" -> get_spend_allocation_insights(inp, rws)
      [] t = "analyze_conversion_funnel" -> analyze_conversion_funnel(inp, rws)
      [] t = "get_ad_delivery_insights" -> get_ad_delivery_insights(inp, rws)
      [] t = "calculate_advanced_attribution" -> calculate_advanced_attribution(inp, rws)

(***************************************************************************)
(* A tool invocation: the registered handler parses the arguments against  *)
(* the tool's shape and calls the tool method, which resolves the account  *)
(* and awaits this.api.get; the method resumes when the response arrives.  *)
(***************************************************************************)
Invoke(t, a) ==
    /\ pc = "idle"
    /\ tool' = t
    /\ args' = a
    /\ LET parsed == ZodParse(t, a)
           acct == accountIdOrThrow(parsed.value.ad_account_id, cfg)
       IN  IF ~parsed.ok
           THEN /\ pc' = "failed"
                /\ error' = "ZodError"
                /\ UNCHANGED <<input, request>>
           ELSE /\ input' = parsed.value
                /\ IF acct.ok
                   THEN pc' = "awaiting" /\ request' = acct.id /\ UNCHANGED error
                   ELSE pc' = "failed" /\ error' = MissingIdError /\ UNCHANGED request
    /\ UNCHANGED <<cfg, rows, result, locals, calls>>

\* MetaApi.get returns the body, or throws when it carries an error payload;
\* the method then reads resp.data ?? [] and computes its result.
Respond(body) ==
    /\ pc = "awaiting"
    /\ IF body.error
       THEN /\ pc' = "failed"
            /\ error' = "GraphApiError"
            /\ UNCHANGED <<rows, result>>
       ELSE /\ pc' = "done"
            /\ rows' = body.data
            /\ result' = Analyse(tool, input, body.data, request)
            /\ UNCHANGED error
    /\ UNCHANGED <<cfg, tool, args, input, request, locals, calls>>

ErrorBody == [error |-> TRUE, data |-> <<>>]

DataBody(rws) == [error |-> FALSE, data |-> rws]

NoArgs == [key \in ArgKeys |-> AbsentArg(key)]

NoList == [isArray |-> FALSE, items |-> <<>>]

List(items) == [isArray |-> TRUE, items |-> items]

Action(type, value) == [action_type |-> Str(type), value |-> value]

BaseRow ==
    [id |-> "1", name |-> "one", spend |-> JsUndefined, impressions |-> JsUndefined,
     clicks |-> JsUndefined, actions |-> NoList, action_values |-> NoList,
     objective |-> Absent, age |-> Absent, gender |-> Absent,
     publisher_platform |-> Absent, platform_position |-> Absent]

(***************************************************************************)
(* Account resolution: every tool, every explicit and default identifier   *)
(***************************************************************************)
MaxIdLen == 1

Pads == {<<>>, <<" ">>}

IdBodies == UNION {[1..n -> {"1", " "}] : n \in 0..MaxIdLen}

IdStrings ==
    {lead \o pre \o body \o trail :
        lead \in Pads, pre \in {<<>>, ActPrefix, <<"a", "c", "t">>},
        body \in IdBodies, trail \in Pads}

AccountArgs ==
    {[NoArgs EXCEPT !.ad_account_id = id, !.date_range = dr] :
        id \in {Absent} \cup {Str(s) : s \in IdStrings}, dr \in BOOLEAN}

AccountBodies ==
    {ErrorBody, DataBody(<<>>),
     DataBody(<<[BaseRow EXCEPT !.spend = JsString(<<"1", "0">>),
                                !.impressions = JsNumber(Whole(100)),
                                !.clicks = JsNumber(Whole(5))]>>)}

InitAccount ==
    /\ pc = "idle"
    /\ cfg \in IdStrings
    /\ tool = "none"
    /\ args = NoValue
    /\ input = NoValue
    /\ request = NoRequest
    /\ rows = <<>>
    /\ result = NoValue
    /\ error = NoError
    /\ locals = NoValue
    /\ calls = <<>>

NextAccount ==
    \/ \E t \in AnalysisTools, a \in AccountArgs : Invoke(t, a)
    \/ \E b \in AccountBodies : Respond(b)

SpecAccount == InitAccount /\ [][NextAccount]_vars

\* no identifier is available in the optional string x
Blank(x) == ~x.has \/ Trim(x.s) = <<>>

\* C1: resolution raises the 'ad_account_id is required' error exactly when
\* neither an explicit nor a default identifier is available; with a non-blank
\* default it succeeds for an absent, empty or whitespace-only explicit one.
C1_RequiredIffNoneAvailable ==
    (pc # "idle" /\ error # "ZodError") =>
        ((error = MissingIdError) <=> (Blank(input.ad_account_id) /\ Blank(Str(cfg))))

\* the account id the caller named, with the act_ prefix
Normalized(s) == IF StartsWith(Trim(s), ActPrefix) THEN Trim(s) ELSE ActPrefix \o Trim(s)

\* C2: for each of the eight analysis tools, when the caller's arguments carry
\* an ad_account_id, the tool method receives it and the report request goes to
\* that account (act_ normalized), not to the configured default.
C2_CallerAccountUsed ==
    (pc # "idle" /\ error # "ZodError" /\ ~Blank(args.ad_account_id)) =>
        /\ input.ad_account_id = args.ad_account_id
        /\ request = Normalized(args.ad_account_id.s)

\* the identifier the method was given: the explicit one, else the default
GivenId == IF input.ad_account_id.has /\ input.ad_account_id.s # <<>>
           THEN input.ad_account_id.s ELSE cfg

\* s from its first to its last character that is not a blank
Unpadded(s) ==
    LET marks == {i \in 1..Len(s) : s[i] # " "}
    IN  IF marks = {} THEN <<>>
        ELSE SubSeq(s, CHOOSE i \in marks : \A j \in marks : i <= j,
                    CHOOSE i \in marks : \A j \in marks : j <= i)

\* accountIdOrThrow has returned: the request went out
Resolved == pc \in {"awaiting", "done"} \/ (pc = "failed" /\ error = "GraphApiError")

\* C26: whenever accountIdOrThrow returns, its result starts with act_, has
\* no leading or trailing whitespace, is the trimmed identifier itself (the
\* prefix not repeated) when that already started with act_, and is returned
\* unchanged when passed back as the explicit identifier.
C26_NormalizationIdempotent ==
    Resolved =>
        /\ StartsWith(request, <<"a", "c", "t", "_">>)
        /\ request[1] # " " /\ request[Len(request)] # " "
        /\ StartsWith(Unpadded(GivenId), <<"a", "c", "t", "_">>) =>
               request = Unpadded(GivenId)
        /\ ~StartsWith(Unpadded(GivenId), <<"a", "c", "t", "_">>) =>
               request = <<"a", "c", "t", "_">> \o Unpadded(GivenId)
        /\ accountIdOrThrow(Str(request), cfg) = [ok |-> TRUE, id |-> request]

\* the explicit identifier " act_1 " resolved to act_1
C26_Witness ==
    /\ pc = "awaiting"
    /\ input.ad_account_id = Str(<<" ", "a", "c", "t", "_", "1", " ">>)
    /\ request = <<"a", "c", "t", "_", "1">>

(***************************************************************************)
(* Rankings: the campaign and audience analyses over short reports        *)
(***************************************************************************)
MaxRows == 3

DefaultAccount == <<"a", "c", "t", "_", "1">>

Campaign == "analyze_campaign_performance"

Audience == "get_audience_performance_breakdown"

\* a report row with the given spend, purchase count, purchase value and age
ReportRow(id, spend, conv, rev, age) ==
    [BaseRow EXCEPT !.id = id, !.spend = spend, !.age = age,
                    !.actions = IF conv = JsUndefined THEN NoList
                                ELSE List(<<Action(Purchase, conv)>>),
                    !.action_values = IF rev = JsUndefined THEN NoList
                                      ELSE List(<<Action(Purchase, rev)>>)]

\* rows without purchases, with a revenue too small to show in roas, with
\* ordinary figures, with revenue only, and with revenue on no spend
RankingRows ==
    {ReportRow("1", JsString(<<"1", "0">>), JsUndefined, JsUndefined, Str(<<"18-24">>)),
     ReportRow("2", JsString(<<"1", "0", "0">>), JsNumber(Whole(1)),
               JsString(<<"0", ".", "0", "1">>), Str(<<"25-34">>)),
     ReportRow("3", JsString(<<"1", "0">>), JsNumber(Whole(2)),
               JsString(<<"5", "0">>), Str(<<"35-44">>)),
     ReportRow("4", JsString(<<"1", "0">>), JsUndefined, JsNumber(Whole(10)),
               Str(<<"35-44">>)),
     ReportRow("5", JsString(<<"0">>), JsNumber(Whole(5)), JsNumber(Whole(1)), Absent)}

\* the reports of at most n rows drawn from a catalogue
Reports(catalogue, n) == UNION {[1..k -> catalogue] : k \in 0..n}

RankingBodies == {ErrorBody} \cup {DataBody(rws) : rws \in Reports(RankingRows, MaxRows)}

RankingArgs ==
    {[NoArgs EXCEPT !.date_range = TRUE, !.performance_thresholds = th, !.breakdowns = bd] :
        th \in {[cpa |-> Undefined, roas |-> Undefined], [cpa |-> Undefined, roas |-> One],
                [cpa |-> Whole(10), roas |-> Undefined], [cpa |-> Whole(100), roas |-> One]},
        bd \in {<<>>, <<"age">>}}

InitRanking ==
    /\ pc = "idle"
    /\ cfg = DefaultAccount
    /\ tool = "none"
    /\ args = NoValue
    /\ input = NoValue
    /\ request = NoRequest
    /\ rows = <<>>
    /\ result = NoValue
    /\ error = NoError
    /\ locals = NoValue
    /\ calls = <<>>

NextRanking ==
    \/ \E t \in {Campaign, Audience}, a \in RankingArgs : Invoke(t, a)
    \/ \E b \in RankingBodies : Respond(b)

SpecRanking == InitRanking /\ [][NextRanking]_vars

\* the list a finished ranking tool ordered by ROAS descending
RoasRanking ==
    IF tool = Campaign THEN result.analysis.rankedByRoas ELSE result.analysis.ranked

\* C7: in rankedByRoas of analyze_campaign_performance and in ranked of
\* get_audience_performance_breakdown an entity without roas comes after
\* every entity whose roas is present and 0 or more, whatever the input
\* order, and the comparator never yields NaN.
C7_AbsentRoasLast ==
    (pc = "done" /\ tool \in {Campaign, Audience}) =>
        \A i, j \in 1..Len(RoasRanking) :
            /\ ~IsNaN(roasDesc(RoasRanking[i], RoasRanking[j]))
            /\ (i < j /\ ~Defined(RoasRanking[i].kpis.roas)) =>
                   ~(Defined(RoasRanking[j].kpis.roas)
                         /\ ~Negative(RoasRanking[j].kpis.roas))

\* C8: in rankedByCpa of analyze_campaign_performance every entity without
\* cpa comes after every entity with one, and the entities with a cpa are in
\* non-decreasing cpa order, for every list size and input order.
C8_CpaAscending ==
    (pc = "done" /\ tool = Campaign) =>
        \A i, j \in 1..Len(result.analysis.rankedByCpa) :
            i < j =>
                /\ Defined(result.analysis.rankedByCpa[j].kpis.cpa) =>
                       Defined(result.analysis.rankedByCpa[i].kpis.cpa)
                /\ (Defined(result.analysis.rankedByCpa[i].kpis.cpa)
                        /\ Defined(result.analysis.rankedByCpa[j].kpis.cpa)) =>
                       ~Less(result.analysis.rankedByCpa[j].kpis.cpa,
                             result.analysis.rankedByCpa[i].kpis.cpa)

\* two campaigns without cpa reported before two with one, the dearer first
C8_Witness ==
    /\ pc = "done"
    /\ tool = Campaign
    /\ Len(rows) = 3
    /\ <<rows[1].id, rows[2].id, rows[3].id>> = <<"1", "4", "2">>
    /\ <<result.analysis.rankedByCpa[1].id, result.analysis.rankedByCpa[2].id,
         result.analysis.rankedByCpa[3].id>> = <<"2", "1", "4">>

\* the entity e fails the thresholds th
Fails(e, th) ==
    \/ /\ Defined(th.roas)
       /\ IF Defined(e.kpis.roas) THEN Less(e.kpis.roas, th.roas) ELSE Less(Zero, th.roas)
    \/ /\ Defined(th.cpa)
       /\ IF Defined(e.kpis.cpa) THEN Less(th.cpa, e.kpis.cpa) ELSE TRUE

\* C13: in analyze_campaign_performance an entity is an underperformer
\* exactly when a roas threshold is set and its roas (0 when absent) is
\* strictly below it, or a cpa threshold is set and its cpa (+infinity when
\* absent) strictly exceeds it; with no threshold set there is none.  The
\* underperformers are read from reallocate_budget_from, their first five.
C13_Underperformers ==
    (pc = "done" /\ tool = Campaign /\ Len(rows) <= 5) =>
        /\ \A k \in 1..Len(result.analysis.rankedByRoas) :
               (\E u \in 1..Len(result.recommendations.reallocate_budget_from) :
                    result.recommendations.reallocate_budget_from[u]
                        = result.analysis.rankedByRoas[k])
                   <=> Fails(result.analysis.rankedByRoas[k], input.performance_thresholds)
        /\ Len(result.recommendations.reallocate_budget_from) <= Len(rows)
        /\ input.performance_thresholds = [cpa |-> Undefined, roas |-> Undefined] =>
               result.recommendations.reallocate_budget_from = <<>>

\* thresholds roas 1 and cpa 100 over a campaign within both, one without
\* roas and cpa, and one with roas 0 and cpa 100: the first is spared
C13_Witness ==
    /\ pc = "done"
    /\ tool = Campaign
    /\ input.performance_thresholds = [cpa |-> Whole(100), roas |-> One]
    /\ Len(rows) = 3
    /\ <<rows[1].id, rows[2].id, rows[3].id>> = <<"3", "1", "2">>
    /\ Len(result.recommendations.reallocate_budget_from) = 2
    /\ result.recommendations.reallocate_budget_from[1].id = "1"

(***************************************************************************)
(* Spend allocation over short reports                                     *)
(***************************************************************************)
Allocation == "get_spend_allocation_insights"

AllocationSpends ==
    {JsString(<<"0">>), JsString(<<"0", ".", "0", "1">>), JsString(<<"1">>),
     JsString(<<"3", ".", "3", "3">>), JsString(<<"1", "0", "0">>), JsString(<<"-", "1">>)}

AllocationRows ==
    {ReportRow("1", spend, JsUndefined, JsUndefined, Absent) : spend \in AllocationSpends}
        \cup {ReportRow("2", JsString(<<"1", "0">>), JsNumber(Whole(2)),
                        JsString(<<"5", "0">>), Absent)}

AllocationBodies ==
    {ErrorBody} \cup {DataBody(rws) : rws \in Reports(AllocationRows, MaxRows)}

NextAllocation ==
    \/ \E dr \in BOOLEAN : Invoke(Allocation, [NoArgs EXCEPT !.date_range = dr])
    \/ \E b \in AllocationBodies : Respond(b)

SpecAllocation == InitRanking /\ [][NextAllocation]_vars

AllocationDone == pc = "done" /\ tool = Allocation

\* the sum of f[i] over the indices 1..n
RECURSIVE SumTo(_, _)
SumTo(f, n) == IF n = 0 THEN 0 ELSE SumTo(f, n - 1) + f[n]

\* the hundredths of each entity's spend and of each spend_share
SpendHundredths ==
    [i \in 1..Len(result.analysis.allocation) |->
        Hundredths(result.analysis.allocation[i].kpis.spend)]

ShareHundredths ==
    [i \in 1..Len(result.analysis.allocation) |->
        Hundredths(result.analysis.allocation[i].spend_share)]

TotalHundredths == SumTo(SpendHundredths, Len(result.analysis.allocation))

\* C9: spend_share of every entity is round2(spend / max(totalSpend, 1e-9)
\* * 100), and when totalSpend > 0 the shares of the N entities add up to
\* 100.00 within 0.01 * N.
C9_SpendShares ==
    AllocationDone =>
        /\ IsHundredths(result.analysis.totalSpend)
        /\ Hundredths(result.analysis.totalSpend) = TotalHundredths
        /\ \A i \in 1..Len(result.analysis.allocation) :
               IF TotalHundredths > 0
               THEN /\ IsHundredths(result.analysis.allocation[i].spend_share)
                    /\ ShareHundredths[i] =
                           NearestHundredths(100 * SpendHundredths[i], TotalHundredths)
               ELSE result.analysis.allocation[i].spend_share =
                        Norm(SpendHundredths[i], 0, 1)
        /\ TotalHundredths > 0 =>
               Abs(SumTo(ShareHundredths, Len(result.analysis.allocation)) - 10000)
                   <= Len(result.analysis.allocation)

\* three entities of equal spend: 33.33 each, the sum 99.99
C9_Witness ==
    /\ AllocationDone
    /\ Len(result.analysis.allocation) = 3
    /\ result.analysis.totalSpend = Whole(3)
    /\ \A i \in 1..3 : result.analysis.allocation[i].spend_share = Dec(3333, 100)

\* C24: no entity appears in both recommendation lists of
\* get_spend_allocation_insights: reallocate_from (the first 5 by ROAS
\* ascending) and reallocate_to (the first 5 by ROAS descending) are disjoint
\* for every row list.
C24_ListsDisjoint ==
    AllocationDone =>
        \A i \in 1..Len(result.recommendations.reallocate_from) :
            \A j \in 1..Len(result.recommendations.reallocate_to) :
                result.recommendations.reallocate_from[i].id
                    # result.recommendations.reallocate_to[j].id

(***************************************************************************)
(* The conversion funnel over reports of stage counts                      *)
(***************************************************************************)
MaxExtraRows == 1

Funnel == "analyze_conversion_funnel"

StageValues ==
    {JsNumber(Whole(n)) : n \in {0, 1, 5, 20, 80, 100}} \cup {JsString(<<"2", ".", "5">>)}

\* a row reporting one action of each funnel stage
FunnelRow(v) ==
    [BaseRow EXCEPT !.spend = JsString(<<"1", "0">>),
                    !.actions = List([i \in 1..4 |-> Action(FunnelStages[i], v[i])]),
                    !.action_values =
                        List(<<Action(<<"view_content">>, JsNumber(Whole(4))),
                               Action(Purchase, JsString(<<"1", "2", ".", "5">>))>>)]

\* a row whose purchase comes under another action type, with views in two
\* entries, and with two purchase values
ExtraRow ==
    [BaseRow EXCEPT !.actions = List(<<Action(<<"omni_", "purchase">>, JsNumber(Whole(7))),
                                       Action(<<"view_content">>, JsNumber(Whole(1))),
                                       Action(<<"view_content">>, JsNumber(Whole(2)))>>),
                    !.action_values =
                        List(<<Action(<<"omni_", "purchase">>, JsString(<<"3", "0">>)),
                               Action(Purchase, JsNumber(Whole(99)))>>)]

FunnelBodies ==
    {ErrorBody}
        \cup {DataBody(<<FunnelRow(v)>> \o [i \in 1..n |-> ExtraRow]) :
                 v \in [1..4 -> StageValues], n \in 0..MaxExtraRows}

NextFunnel ==
    \/ \E dr \in BOOLEAN : Invoke(Funnel, [NoArgs EXCEPT !.date_range = dr])
    \/ \E b \in FunnelBodies : Respond(b)

SpecFunnel == InitRanking /\ [][NextFunnel]_vars

FunnelDone == pc = "done" /\ tool = Funnel

\* round2(1 - c / max(p, 1e-9)) for plain non-negative decimals c and p
ExpectedDropoff(c, p) ==
    IF p.lo > 0 THEN Dec(NearestHundredths(p.lo * c.d - c.lo * p.d, p.lo * c.d), 100)
    ELSE IF c.lo = 0 THEN One
    ELSE Norm(-c.lo, c.d, c.d)

\* C10: dropoffs[0] = 0 and dropoffs[i] = round2(1 - count[i] /
\* max(count[i-1], 1e-9)) for every four non-negative stage counts, and
\* focus_stage is the smallest index holding the largest drop-off; counts
\* [100, 80, 20, 5] give [0, 0.20, 0.75, 0.75] and focus_stage 2.
C10_Dropoffs ==
    FunnelDone =>
        /\ result.analysis.dropoffs[1] = Zero
        /\ \A i \in 2..4 :
               result.analysis.dropoffs[i] =
                   ExpectedDropoff(result.analysis.funnel[i].count,
                                   result.analysis.funnel[i - 1].count)
        /\ result.recommendations.focus_stage \in 0..3
        /\ \A i \in 1..4 :
               /\ ~Less(result.analysis.dropoffs[result.recommendations.focus_stage + 1],
                        result.analysis.dropoffs[i])
               /\ i < result.recommendations.focus_stage + 1 =>
                      Less(result.analysis.dropoffs[i],
                           result.analysis.dropoffs[result.recommendations.focus_stage + 1])
        /\ [i \in 1..4 |-> result.analysis.funnel[i].count]
               = <<Whole(100), Whole(80), Whole(20), Whole(5)>> =>
               /\ result.analysis.dropoffs = <<Zero, Dec(20, 100), Dec(75, 100), Dec(75, 100)>>
               /\ result.recommendations.focus_stage = 2

\* the report of the counts 100, 80, 20 and 5, analysed
C10_Witness ==
    /\ FunnelDone
    /\ Len(rows) = 1
    /\ [i \in 1..4 |-> result.analysis.funnel[i].count]
           = <<Whole(100), Whole(80), Whole(20), Whole(5)>>
    /\ result.recommendations.focus_stage = 2

(***************************************************************************)
(* Buckets: the loop of get_audience_performance_breakdown taken row by    *)
(* row, and the buckets of get_ad_delivery_insights                        *)
(***************************************************************************)
Delivery == "get_ad_delivery_insights"

\* const rows = resp.data ?? []; const byKey = new Map()
RespondFold(body) ==
    /\ pc = "awaiting"
    /\ tool = Audience
    /\ IF body.error
       THEN /\ pc' = "failed"
            /\ error' = "GraphApiError"
            /\ UNCHANGED <<rows, locals>>
       ELSE /\ pc' = "folding"
            /\ rows' = body.data
            /\ locals' = [i |-> 0, byKey |-> <<>>]
            /\ UNCHANGED error
    /\ UNCHANGED <<cfg, tool, args, input, request, result, calls>>

\* one iteration of for (const r of rows)
FoldRow ==
    /\ pc = "folding"
    /\ locals.i < Len(rows)
    /\ locals' = [i |-> locals.i + 1,
                  byKey |-> foldRow(locals.byKey, rows[locals.i + 1], breakdownsOf(input))]
    /\ UNCHANGED <<pc, cfg, tool, args, input, request, rows, result, error, calls>>

\* the statements after the loop
FinishFold ==
    /\ pc = "folding"
    /\ locals.i = Len(rows)
    /\ pc' = "done"
    /\ result' = audienceResult(rows, breakdownsOf(input), locals.byKey)
    /\ UNCHANGED <<cfg, tool, args, input, request, rows, error, locals, calls>>

\* a row whose breakdown dimensions hold v1 and v2
BucketRow(spend, conv, rev, v1, v2) ==
    [ReportRow("1", spend, conv, rev, v1) EXCEPT
        !.gender = v2, !.publisher_platform = v1, !.platform_position = v2,
        !.impressions = JsNumber(Whole(100)), !.clicks = JsString(<<"5">>)]

\* missing and empty values, and values holding the separator
BucketRows ==
    {BucketRow(JsString(<<"1">>), JsUndefined, JsUndefined, v[1], v[2]) :
        v \in {<<Absent, Absent>>, <<Str(<<>>), Absent>>, <<Str(<<"a">>), Absent>>,
               <<Str(<<"a">>), Str(<<"|">>)>>, <<Str(<<"a", "|">>), Str(<<>>)>>}}
        \cup {BucketRow(JsString(<<"2", ".", "5">>), JsNumber(Whole(2)),
                        JsString(<<"5", "0">>), Str(<<"a">>), Absent)}

BucketBodies == {ErrorBody} \cup {DataBody(rws) : rws \in Reports(BucketRows, MaxRows)}

BucketArgs ==
    {[NoArgs EXCEPT !.date_range = TRUE, !.breakdowns = bd] :
        bd \in {<<>>, <<"age">>, <<"age", "gender">>}}

NextBuckets ==
    \/ \E t \in {Audience, Delivery}, a \in BucketArgs : Invoke(t, a)
    \/ \E b \in BucketBodies : RespondFold(b)
    \/ FoldRow
    \/ FinishFold
    \/ \E b \in BucketBodies : tool = Delivery /\ Respond(b)

SpecBuckets == InitRanking /\ [][NextBuckets]_vars

\* the breakdown values of the row r, as reported
ValuesOf(r, breakdowns) == [k \in 1..Len(breakdowns) |-> r[breakdowns[k]]]

\* the sum of vals[j] over the j in 1..n that f sends to b
RECURSIVE SumWhere(_, _, _, _)
SumWhere(f, b, vals, n) ==
    IF n = 0 THEN Zero
    ELSE Add(SumWhere(f, b, vals, n - 1), IF f[n] = b THEN vals[n] ELSE Zero)

\* the bucket b holds the sums of the rows 1..n that f sends to it
HoldsSums(bucket, f, b, n) ==
    /\ bucket.spend = SumWhere(f, b, [j \in 1..n |-> toNumber(rows[j].spend)], n)
    /\ bucket.impressions = SumWhere(f, b, [j \in 1..n |-> toNumber(rows[j].impressions)], n)
    /\ bucket.clicks = SumWhere(f, b, [j \in 1..n |-> toNumber(rows[j].clicks)], n)
    /\ bucket.conversions = SumWhere(f, b, [j \in 1..n |-> purchaseCount(rows[j])], n)
    /\ bucket.revenue = SumWhere(f, b, [j \in 1..n |-> purchaseValue(rows[j])], n)

\* C11: after any prefix of the rows of get_audience_performance_breakdown
\* every processed row is folded into exactly one bucket, rows of equal
\* breakdown values into the same one, and every bucket holds the sums of the
\* normalized values of its rows; two rows of equal breakdown values give one
\* bucket whose spend is the sum of both.
C11_BucketSums ==
    (pc = "folding") =>
        /\ \E f \in [1..locals.i -> 1..Len(locals.byKey)] :
               /\ \A j, k \in 1..locals.i :
                      ValuesOf(rows[j], breakdownsOf(input))
                          = ValuesOf(rows[k], breakdownsOf(input)) => f[j] = f[k]
               /\ \A b \in 1..Len(locals.byKey) :
                      /\ \E j \in 1..locals.i : f[j] = b
                      /\ HoldsSums(locals.byKey[b].value, f, b, locals.i)
        /\ (locals.i = 2 /\ ValuesOf(rows[1], breakdownsOf(input))
                               = ValuesOf(rows[2], breakdownsOf(input))) =>
               /\ Len(locals.byKey) = 1
               /\ locals.byKey[1].value.spend
                      = Add(toNumber(rows[1].spend), toNumber(rows[2].spend))

\* two rows of equal breakdown values and different spend, both folded
C11_Witness ==
    /\ pc = "folding"
    /\ locals.i = 2
    /\ Len(rows) = 3
    /\ ValuesOf(rows[1], breakdownsOf(input)) = ValuesOf(rows[2], breakdownsOf(input))
    /\ Len(locals.byKey) = 1
    /\ locals.byKey[1].value.spend = Dec(35, 10)

\* C12: the bucket key is unique per combination of breakdown values: rows
\* whose tuples of values differ (values holding '|', a missing against an
\* empty value) are never merged, so there are as many buckets as tuples, in
\* get_audience_performance_breakdown and in get_ad_delivery_insights.
C12_KeyUnique ==
    /\ (pc = "done" /\ tool = Audience) =>
           Len(result.analysis.ranked)
               = Cardinality({ValuesOf(rows[j], result.analysis.breakdowns) :
                                  j \in 1..Len(rows)})
    /\ (pc = "done" /\ tool = Delivery) =>
           Len(result.analysis.items)
               = Cardinality({<<rows[j].publisher_platform, rows[j].platform_position>> :
                                  j \in 1..Len(rows)})

(***************************************************************************)
(* meta.ts: MetaApi.runInsightsJob.  Date.now() is the counter locals.now, *)
(* which stands still once it has passed the deadline by one unit: from    *)
(* there on every poll that does not end the job times out.                *)
(***************************************************************************)
MaxPollMs == 2

MaxWaitMs == 3

StartError == "Failed to start insights async job"

JobFailedError == "Async insights job failed"

TimedOutError == "Async insights timed out"

JobCompleted == Str(<<"Job Completed">>)

JobFailed == Str(<<"Job Failed">>)

JobError == Str(<<"Error">>)

JobRunning == Str(<<"Job Running">>)

\* job.report_run_id ?? job.report_run?.id
jobIdOf(job) == IF job.report_run_id.has THEN job.report_run_id ELSE job.report_run

\* status.async_status || status.status
statusOf(status) == IF Falsy(status.async_status) THEN status.status ELSE status.async_status

pollOutcomeFailedOnly(s, elapsed, maxWaitMs) ==
    IF s = JobCompleted THEN "break"
    ELSE IF s = JobFailed THEN "failed"
    ELSE IF elapsed > maxWaitMs THEN "timed out"
    ELSE "delay"

pollOutcomeNoDeadline(s, elapsed, maxWaitMs) ==
    IF s = JobCompleted THEN "break"
    ELSE IF s = JobFailed \/ s = JobError THEN "failed"
    ELSE "delay"

pollOutcomeDeadlineFirst(s, elapsed, maxWaitMs) ==
    IF elapsed > maxWaitMs THEN "timed out"
    ELSE IF s = JobCompleted THEN "break"
    ELSE IF s = JobFailed \/ s = JobError THEN "failed"
    ELSE "delay"

\* lines 67-70: what the loop does on the status s after elapsed time
pollOutcome(s, elapsed, maxWaitMs) ==
    IF s = JobCompleted THEN "break"
    ELSE IF s = JobFailed \/ s = JobError THEN "failed"
    ELSE IF elapsed > maxWaitMs THEN "timed out"
    ELSE "delay"

\* the call: the request that starts the job is issued
StartJob(pollMs, maxWaitMs) ==
    /\ pc = "idle"
    /\ pc' = "starting"
    /\ tool' = "runInsightsJob"
    /\ request' = cfg
    /\ locals' = [pollMs |-> pollMs, maxWaitMs |-> maxWaitMs, jobId |-> Absent,
                  start |-> 0, now |-> 0, wake |-> 0, s |-> Absent,
                  polls |-> 0, fetches |-> 0]
    /\ UNCHANGED <<cfg, args, input, rows, result, error, calls>>

\* the answer to the start request; with a job id the first poll is issued
JobStarted(body) ==
    /\ pc = "starting"
    /\ IF body.error
       THEN pc' = "failed" /\ error' = "GraphApiError" /\ UNCHANGED locals
       ELSE IF Falsy(jobIdOf(body))
       THEN pc' = "failed" /\ error' = StartError /\ UNCHANGED locals
       ELSE /\ pc' = "polling"
            /\ locals' = [locals EXCEPT !.jobId = jobIdOf(body), !.start = locals.now,
                                        !.polls = 1]
            /\ UNCHANGED error
    /\ UNCHANGED <<cfg, tool, args, input, request, rows, result, calls>>

\* pc, error and locals after the loop body has seen the status s
AfterStatus(s, outcome) ==
    /\ pc' = CASE outcome = "break" -> "fetching"
               [] outcome = "delay" -> "delaying"
               [] OTHER -> "failed"
    /\ error' = CASE outcome = "failed" -> JobFailedError
                  [] outcome = "timed out" -> TimedOutError
                  [] OTHER -> error
    /\ locals' = [locals EXCEPT !.s = s,
                                !.wake = IF outcome = "delay" THEN locals.now + locals.pollMs
                                         ELSE @,
                                !.fetches = IF outcome = "break" THEN 1 ELSE @]

\* the answer to a status request
StatusResponse(body) ==
    /\ pc = "polling"
    /\ IF body.error
       THEN pc' = "failed" /\ error' = "GraphApiError" /\ UNCHANGED locals
       ELSE AfterStatus(statusOf(body),
                        pollOutcome(statusOf(body), locals.now - locals.start,
                                    locals.maxWaitMs))
    /\ UNCHANGED <<cfg, tool, args, input, request, rows, result, calls>>

\* delay(pollMs) is over: the next status request is issued.  A poll is
\* issued at least pollMs >= 1 after the one before, so the deadline allows
\* at most maxWaitMs + 2 of them; the guard on polls only keeps the counter
\* finite.
DelayDone ==
    /\ pc = "delaying"
    /\ locals.polls < locals.maxWaitMs + 2
    /\ locals.now >= locals.wake \/ locals.now > locals.start + locals.maxWaitMs
    /\ pc' = "polling"
    /\ locals' = [locals EXCEPT !.polls = @ + 1]
    /\ UNCHANGED <<cfg, tool, args, input, request, rows, result, error, calls>>

\* time passes while a status request or a delay is pending
Tick ==
    /\ pc \in {"polling", "delaying"}
    /\ locals.now <= locals.start + locals.maxWaitMs
    /\ locals' = [locals EXCEPT !.now = @ + 1]
    /\ UNCHANGED <<pc, cfg, tool, args, input, request, rows, result, error, calls>>

\* the answer to the request for the job's result
ResultResponse(body) ==
    /\ pc = "fetching"
    /\ IF body.error
       THEN pc' = "failed" /\ error' = "GraphApiError" /\ UNCHANGED <<rows, result>>
       ELSE pc' = "done" /\ rows' = body.data /\ result' = body /\ UNCHANGED error
    /\ UNCHANGED <<cfg, tool, args, input, request, locals, calls>>

StartBodies ==
    {[error |-> TRUE, report_run_id |-> Absent, report_run |-> Absent]}
        \cup {[error |-> FALSE, report_run_id |-> a, report_run |-> b] :
                 a \in {Absent, Str(<<>>), Str(<<"7">>)}, b \in {Absent, Str(<<"8">>)}}

StatusBodies ==
    {[error |-> TRUE, async_status |-> Absent, status |-> Absent]}
        \cup {[error |-> FALSE, async_status |-> a, status |-> b] :
                 a \in {Absent, Str(<<>>), JobRunning, JobCompleted, JobFailed},
                 b \in {Absent, JobError, JobCompleted}}

ResultBodies ==
    {ErrorBody, DataBody(<<>>), DataBody(<<[BaseRow EXCEPT !.spend = JsString(<<"1">>)]>>)}

NextJob ==
    \/ \E p \in 1..MaxPollMs, w \in 0..MaxWaitMs : StartJob(p, w)
    \/ \E b \in StartBodies : JobStarted(b)
    \/ \E b \in StatusBodies : StatusResponse(b)
    \/ DelayDone
    \/ Tick
    \/ \E b \in ResultBodies : ResultResponse(b)

SpecJob == InitRanking /\ [][NextJob]_vars

\* every request is answered, every delay ends and the clock advances
SpecJobFair ==
    /\ SpecJob
    /\ WF_vars(\E b \in StatusBodies : StatusResponse(b))
    /\ WF_vars(DelayDone)
    /\ WF_vars(Tick)

InJob == tool = "runInsightsJob" /\ pc # "idle"

\* C14: a polled 'Job Failed' or 'Error' status and a poll timeout surface as
\* two different named errors; in both cases the job's result is never
\* requested and nothing is returned; the result is requested only after a
\* 'Job Completed' status was seen.
C14_FailureAndTimeout ==
    InJob =>
        /\ JobFailedError # TimedOutError
        /\ (pc = "failed" /\ locals.s \in {JobFailed, JobError}) => error = JobFailedError
        /\ error = JobFailedError =>
               /\ locals.s \in {JobFailed, JobError}
               /\ locals.fetches = 0 /\ result = NoValue /\ pc = "failed"
        /\ error = TimedOutError =>
               /\ locals.s \notin {JobCompleted, JobFailed, JobError}
               /\ locals.now - locals.start > locals.maxWaitMs
               /\ locals.fetches = 0 /\ result = NoValue /\ pc = "failed"
        /\ (locals.fetches > 0 \/ pc \in {"fetching", "done"}) => locals.s = JobCompleted

\* a job that fails on its third poll, the 'Error' status in the status field
C14_Witness ==
    /\ InJob
    /\ pc = "failed"
    /\ error = JobFailedError
    /\ locals.s = JobError
    /\ locals.polls = 3

\* a job id was obtained
Started == InJob /\ locals.jobId.has

\* where the poll loop stands: still polling, or the way it was left
Outcome ==
    IF ~InJob \/ pc = "starting" THEN "Starting"
    ELSE IF pc \in {"polling", "delaying"} THEN "Polling"
    ELSE IF pc \in {"fetching", "done"} \/ locals.fetches > 0 THEN "Completed"
    ELSE IF error = JobFailedError THEN "Failed"
    ELSE IF error = TimedOutError THEN "TimedOut"
    ELSE "RequestError"

\* C17 as stated: once a job id was obtained the poll loop is left through
\* Completed, Failed or TimedOut and in no other way.
C17_ThreeOutcomes == Started => Outcome \in {"Polling", "Completed", "Failed", "TimedOut"}

\* C17, amended: once a job id was obtained the loop is left through
\* Completed, Failed or TimedOut, or by the error of a status request that
\* answered with an error payload; the way it was left never changes and no
\* status poll is issued afterwards; and when every status request is
\* answered, every delay ends and the clock advances, the loop is left.
C17_PollLoop ==
    /\ [](Started =>
            /\ Outcome = "Completed" => locals.s = JobCompleted
            /\ Outcome = "Failed" => locals.s \in {JobFailed, JobError}
            /\ Outcome = "TimedOut" =>
                   /\ locals.s \notin {JobCompleted, JobFailed, JobError}
                   /\ locals.now - locals.start > locals.maxWaitMs
            /\ Outcome = "RequestError" => (pc = "failed" /\ error = "GraphApiError"))
    /\ [][(Started /\ Outcome # "Polling") =>
              (Outcome' = Outcome /\ locals'.polls = locals.polls)]_vars
    /\ (Started ~> (Started /\ Outcome # "Polling"))

\* the deadline passes during the second delay and the third poll times out
C17_Witness ==
    /\ Started
    /\ Outcome = "TimedOut"
    /\ locals.polls = 3
    /\ locals.s = JobRunning

\* C23: within one iteration of the poll loop the polled status is examined
\* before the elapsed time: a poll answered 'Job Completed' leads to the
\* result fetch even when more than maxWaitMs has elapsed; a timeout is
\* raised only in the step that handles the answer of a status poll, so
\* after at least one poll, and only when that answer's status is neither
\* completed nor failed and more than maxWaitMs has elapsed.
C23_StatusBeforeDeadline ==
    [][/\ (pc = "polling" /\ locals'.s = JobCompleted) =>
               (pc' = "fetching" /\ locals'.fetches = 1 /\ error' = error)
       /\ (error' = TimedOutError /\ error # TimedOutError) =>
               /\ pc = "polling"
               /\ locals.polls >= 1
               /\ locals'.polls = locals.polls
               /\ locals'.s \notin {JobCompleted, JobFailed, JobError}
               /\ locals.now - locals.start > locals.maxWaitMs]_vars

\* the status 'Job Completed' arrived after the deadline had passed, and the
\* result is being fetched
C23_Witness ==
    /\ InJob
    /\ pc = "fetching"
    /\ locals.s = JobCompleted
    /\ locals.now - locals.start > locals.maxWaitMs

(***************************************************************************)
(* meta.ts: MetaApi.getAllPages.  The service holds a chain of pages; the  *)
(* url of the request in flight is the index of the page it reaches.       *)
(***************************************************************************)
MaxPages == 3

\* body.data ?? []
dataOf(body) == IF body.hasData THEN body.data ELSE <<>>

prependPage(out, data) == data \o out

\* out.push(...data)
appendPage(out, data) == out \o data

\* the call: the request for the first page is issued
GetAllPages(pages) ==
    /\ pc = "idle"
    /\ pc' = "paging"
    /\ tool' = "getAllPages"
    /\ locals' = [pages |-> pages, url |-> 1, out |-> <<>>, requests |-> 1, responses |-> 0]
    /\ UNCHANGED <<cfg, args, input, request, rows, result, error, calls>>

\* one iteration of while (true), from the answer to the request in flight
PageResponse ==
    /\ pc = "paging"
    /\ IF locals.pages[locals.url].error
       THEN /\ pc' = "failed"
            /\ error' = "GraphApiError"
            /\ locals' = [locals EXCEPT !.responses = @ + 1]
            /\ UNCHANGED result
       ELSE /\ UNCHANGED error
            /\ IF Falsy(locals.pages[locals.url].next)
               THEN /\ pc' = "done"
                    /\ result' = appendPage(locals.out, dataOf(locals.pages[locals.url]))
                    /\ locals' = [locals EXCEPT
                                     !.out = appendPage(@, dataOf(locals.pages[locals.url])),
                                     !.responses = @ + 1]
               ELSE /\ UNCHANGED <<pc, result>>
                    /\ locals' = [locals EXCEPT
                                     !.out = appendPage(@, dataOf(locals.pages[locals.url])),
                                     !.url = @ + 1,
                                     !.responses = @ + 1,
                                     !.requests = @ + 1]
    /\ UNCHANGED <<cfg, tool, args, input, request, rows, calls>>

PageData ==
    {<<>>, <<[BaseRow EXCEPT !.id = "1"]>>,
     <<[BaseRow EXCEPT !.id = "2"], [BaseRow EXCEPT !.id = "1"]>>}

ErrorPage == [error |-> TRUE, hasData |-> FALSE, data |-> <<>>, next |-> Absent]

\* pages with data, or without the data field
DataPages(nexts) ==
    {[error |-> FALSE, hasData |-> TRUE, data |-> d, next |-> n] : d \in PageData, n \in nexts}
        \cup {[error |-> FALSE, hasData |-> FALSE, data |-> <<>>, next |-> n] : n \in nexts}

\* chains of pages: every page but the last has a next cursor; the last one
\* has none, or an empty one, or is an error payload
PageChains ==
    {inner \o <<last>> :
        inner \in Reports(DataPages({Str(<<"next">>)}), MaxPages - 1),
        last \in DataPages({Absent, Str(<<>>)}) \cup {ErrorPage}}

NextPages ==
    \/ \E pages \in PageChains : GetAllPages(pages)
    \/ PageResponse

SpecPages == InitRanking /\ [][NextPages]_vars

InPages == tool = "getAllPages" /\ pc # "idle"

\* the data of the first n pages, in order
RECURSIVE ConcatData(_, _)
ConcatData(pages, n) ==
    IF n = 0 THEN <<>>
    ELSE ConcatData(pages, n - 1) \o (IF pages[n].hasData THEN pages[n].data ELSE <<>>)

\* C15: getAllPages either returns the data of every page from the first to
\* the first one without a next cursor, concatenated in fetch order, or
\* raises as soon as a page is an error payload and returns none of the rows
\* collected before; the requests are issued one at a time, each after the
\* answer to the one before.
C15_AllPagesOrError ==
    InPages =>
        /\ pc \in {"paging", "done", "failed"}
        /\ locals.requests - locals.responses = (IF pc = "paging" THEN 1 ELSE 0)
        /\ locals.requests = locals.url
        /\ pc = "done" =>
               /\ error = NoError
               /\ ~locals.pages[locals.url].error
               /\ Falsy(locals.pages[locals.url].next)
               /\ \A k \in 1..(locals.url - 1) :
                      ~locals.pages[k].error /\ ~Falsy(locals.pages[k].next)
               /\ result = ConcatData(locals.pages, locals.url)
        /\ pc = "failed" =>
               /\ error = "GraphApiError"
               /\ result = NoValue
               /\ locals.pages[locals.url].error

\* three pages fetched, rows on the first and the last
C15_Witness ==
    /\ InPages
    /\ pc = "done"
    /\ locals.url = 3
    /\ Len(result) = 3
    /\ <<result[1].id, result[2].id, result[3].id>> = <<"1", "2", "1">>

(***************************************************************************)
(* The analysis tools against a reporting endpoint that pages its answer   *)
(***************************************************************************)
\* a page of rows with the next cursor n
RowsPage(data, n) == [error |-> FALSE, hasData |-> TRUE, data |-> data, next |-> n]

\* what the endpoint holds: an error, one page, or two pages linked by a cursor
PagedReports ==
    {<<ErrorPage>>}
        \cup {<<RowsPage(d, Absent)>> : d \in Reports(RankingRows, 1)}
        \cup {<<RowsPage(d1, Str(<<"next">>)), RowsPage(d2, Absent)>> :
                 d1 \in Reports(RankingRows, 1), d2 \in Reports(RankingRows, 1)}

InitPaged ==
    /\ pc = "idle"
    /\ cfg = DefaultAccount
    /\ tool = "none"
    /\ args = NoValue
    /\ input = NoValue
    /\ request = NoRequest
    /\ rows = <<>>
    /\ result = NoValue
    /\ error = NoError
    /\ locals \in {[pages |-> pages] : pages \in PagedReports}
    /\ calls = <<>>

\* api.get answers with the body of the first page
NextPaged ==
    \/ \E t \in AnalysisTools, dr \in BOOLEAN : Invoke(t, [NoArgs EXCEPT !.date_range = dr])
    \/ Respond(locals.pages[1])

SpecPaged == InitPaged /\ [][NextPaged]_vars

MaxEntries == 2

\* entries of an actions / action_values list: types that are, contain or do
\* not contain "purchase" (the match is case-sensitive), an entry without a
\* type and one without a value
Entries ==
    {Action(Purchase, JsString(<<"5">>)),
     Action(Purchase, JsUndefined),
     Action(<<"omni_", "purchase">>, JsNumber(Whole(7))),
     Action(<<"offsite_conversion.fb_pixel_", "purchase">>,
            JsString(<<"1", ",", "2", "3", "4", ".", "5">>)),
     Action(<<"Purchase">>, JsNumber(Whole(2))),
     Action(<<"view_content">>, JsNumber(Whole(3))),
     [action_type |-> Absent, value |-> JsNumber(Whole(9))]}

EntryLists == {NoList} \cup {List(l) : l \in UNION {[1..n -> Entries] : n \in 0..MaxEntries}}

\* the list of the other field of the row
OtherList == List(<<Action(Purchase, JsNumber(Whole(99)))>>)

ExtractRows ==
    {[BaseRow EXCEPT !.actions = l, !.action_values = OtherList] : l \in EntryLists}
        \cup {[BaseRow EXCEPT !.actions = OtherList, !.action_values = l] : l \in EntryLists}

InitExtract ==
    /\ pc = "ready"
    /\ tool = "extract"
    /\ input \in ExtractRows
    /\ cfg = <<>>
    /\ args = NoValue
    /\ request = NoRequest
    /\ rows = <<>>
    /\ result = NoValue
    /\ error = NoError
    /\ locals = NoValue
    /\ calls = <<>>

CallPurchaseCount ==
    /\ pc = "ready"
    /\ tool = "extract"
    /\ result' = purchaseCount(input)
    /\ tool' = "purchaseCount"
    /\ pc' = "done"
    /\ UNCHANGED <<cfg, args, input, request, rows, error, locals, calls>>

CallPurchaseValue ==
    /\ pc = "ready"
    /\ tool = "extract"
    /\ result' = purchaseValue(input)
    /\ tool' = "purchaseValue"
    /\ pc' = "done"
    /\ UNCHANGED <<cfg, args, input, request, rows, error, locals, calls>>

NextExtract ==
    \/ CallPurchaseCount
    \/ CallPurchaseValue

SpecExtract == InitExtract /\ [][NextExtract]_vars

\* the list, scanned from entry i on: the normalized value of the first entry
\* whose type contains "purchase", 0 when there is none
RECURSIVE ScanPurchase(_, _)
ScanPurchase(list, i) ==
    IF ~list.isArray \/ i > Len(list.items) THEN Zero
    ELSE IF list.items[i].action_type.has
              /\ Includes(list.items[i].action_type.s, Purchase)
         THEN toNumber(list.items[i].value)
    ELSE ScanPurchase(list, i + 1)

\* C18: purchaseCount (over actions) and purchaseValue (over action_values)
\* return the normalized value of the first entry, in list order, whose type
\* contains "purchase", whatever later entries match; 0 when no entry
\* matches or the list is missing or not a list; they never raise.
C18_FirstPurchase ==
    /\ (pc = "done" /\ tool = "purchaseCount") =>
           /\ result = ScanPurchase(input.actions, 1)
           /\ ~input.actions.isArray => result = Zero
           /\ error = NoError
    /\ (pc = "done" /\ tool = "purchaseValue") =>
           /\ result = ScanPurchase(input.action_values, 1)
           /\ ~input.action_values.isArray => result = Zero
           /\ error = NoError

\* purchaseCount over a list of two matching entries of different values
C18_Witness ==
    /\ pc = "done"
    /\ tool = "purchaseCount"
    /\ input.actions = List(<<Action(Purchase, JsString(<<"5">>)),
                              Action(<<"omni_", "purchase">>, JsNumber(Whole(7)))>>)
    /\ result = Whole(5)

(***************************************************************************)
(* The funnel's stage counts and revenue                                   *)
(***************************************************************************)
\* the values of the entries from entry j of row k on, and of the rows after
\* it, whose type is exactly t, added up
RECURSIVE SumExact(_, _, _, _)
SumExact(rws, t, k, j) ==
    IF k > Len(rws) THEN Zero
    ELSE IF ~rws[k].actions.isArray \/ j > Len(rws[k].actions.items)
    THEN SumExact(rws, t, k + 1, 1)
    ELSE IF rws[k].actions.items[j].action_type = Str(t)
    THEN Add(toNumber(rws[k].actions.items[j].value), SumExact(rws, t, k, j + 1))
    ELSE SumExact(rws, t, k, j + 1)

\* the value of the first action_values entry containing "purchase" of each
\* row from row k on, added up
RECURSIVE SumFirstPurchase(_, _)
SumFirstPurchase(rws, k) ==
    IF k > Len(rws) THEN Zero
    ELSE Add(ScanPurchase(rws[k].action_values, 1), SumFirstPurchase(rws, k + 1))

\* C19: each of the four stage counts is the sum, over all rows and all
\* their action entries, of the values of the entries whose type is exactly
\* view_content, add_to_cart, initiate_checkout or purchase; an entry whose
\* type merely contains "purchase" adds nothing to the Purchase count nor to
\* the conversions given to the KPI calculation, while the revenue is taken
\* from the first action_values entry of each row whose type contains
\* "purchase".
C19_ExactStages ==
    FunnelDone =>
        /\ \A i \in 1..4 :
               result.analysis.funnel[i].count = SumExact(rows, FunnelStages[i], 1, 1)
        /\ result.analysis.funnel[4].count = toNumber(rows[1].actions.items[4].value)
        /\ result.analysis.kpis.conversions = MathRound(result.analysis.funnel[4].count)
        /\ result.analysis.kpis.revenue = round2(SumFirstPurchase(rows, 1))
        /\ Len(rows) = 2 => result.analysis.kpis.revenue = Dec(425, 10)

\* counts 100, 80, 20 and 5 with a second row of 7 omni_purchase, 3 views and
\* the purchase values 30 and 99
C19_Witness ==
    /\ FunnelDone
    /\ rows[Len(rows)] = ExtraRow
    /\ [i \in 1..4 |-> result.analysis.funnel[i].count]
           = <<Whole(103), Whole(80), Whole(20), Whole(5)>>
    /\ result.analysis.kpis.conversions = Whole(5)
    /\ result.analysis.kpis.revenue = Dec(425, 10)

(***************************************************************************)
(* Two invocations in flight on one MetaAdsTools.  The instance holds cfg  *)
(* and api, both assigned in the constructor only; an invocation's input,  *)
(* account id and accumulators are locals of its own async method.  A      *)
(* frame of calls is one invocation: its position, what it holds across    *)
(* the await of this.api.get, and its outcome.  The code after the await   *)
(* runs to the return without another await.                               *)
(***************************************************************************)
Callers == {1, 2}

IdleFrame ==
    [pc |-> "idle", tool |-> "none", args |-> NoValue, input |-> NoValue,
     request |-> NoRequest, rows |-> <<>>, result |-> NoValue, error |-> NoError]

\* the frame of an invocation up to its await: the handler parses the
\* arguments, the method resolves the account and requests the insights
started(t, a, parsed, acct) ==
    IF ~parsed.ok
    THEN [IdleFrame EXCEPT !.pc = "failed", !.tool = t, !.args = a, !.error = "ZodError"]
    ELSE IF ~acct.ok
    THEN [IdleFrame EXCEPT !.pc = "failed", !.tool = t, !.args = a, !.input = parsed.value,
                           !.error = MissingIdError]
    ELSE [IdleFrame EXCEPT !.pc = "awaiting", !.tool = t, !.args = a, !.input = parsed.value,
                           !.request = acct.id]

sharedFrame(frames, c) ==
    IF \E d \in Callers \ {c} : frames[d].pc = "awaiting"
    THEN frames[CHOOSE d \in Callers \ {c} : frames[d].pc = "awaiting"]
    ELSE frames[c]

\* the input, account id and method the code after the await reads: the
\* parameters and constants of the invocation's own method call
ownFrame(frames, c) == frames[c]

\* the frame once the response arrived: get throws on an error payload, else
\* the method computes its result from resp.data ?? [] in fresh accumulators
resumed(frame, seen, body) ==
    IF body.error
    THEN [frame EXCEPT !.pc = "failed", !.error = "GraphApiError"]
    ELSE [frame EXCEPT !.pc = "done", !.rows = body.data,
                       !.result = Analyse(seen.tool, seen.input, body.data, seen.request)]

StartCall(c, t, a) ==
    /\ pc = "serving"
    /\ calls[c].pc = "idle"
    /\ calls' = [calls EXCEPT ![c] =
                     started(t, a, ZodParse(t, a),
                             accountIdOrThrow(ZodParse(t, a).value.ad_account_id, cfg))]
    /\ UNCHANGED <<pc, cfg, tool, args, input, request, rows, result, error, locals>>

ReceiveCall(c, body) ==
    /\ pc = "serving"
    /\ calls[c].pc = "awaiting"
    /\ calls' = [calls EXCEPT ![c] = resumed(calls[c], ownFrame(calls, c), body)]
    /\ UNCHANGED <<pc, cfg, tool, args, input, request, rows, result, error, locals>>

ConcurrentArgs ==
    {[NoArgs EXCEPT !.ad_account_id = id, !.date_range = dr, !.breakdowns = bd] :
        id \in {Absent, Str(<<"2">>)}, dr \in BOOLEAN, bd \in {<<>>, <<"age">>}}

\* an error, an empty report, and reports of rows of one age bracket
ConcurrentBodies ==
    {ErrorBody, DataBody(<<>>),
     DataBody(<<ReportRow("3", JsString(<<"1", "0">>), JsNumber(Whole(2)),
                          JsString(<<"5", "0">>), Str(<<"35-44">>))>>),
     DataBody(<<ReportRow("3", JsString(<<"1", "0">>), JsNumber(Whole(2)),
                          JsString(<<"5", "0">>), Str(<<"35-44">>)),
                ReportRow("4", JsString(<<"1", "0">>), JsUndefined, JsNumber(Whole(10)),
                          Str(<<"35-44">>))>>)}

InitConcurrent ==
    /\ pc = "serving"
    /\ cfg = DefaultAccount
    /\ tool = "none"
    /\ args = NoValue
    /\ input = NoValue
    /\ request = NoRequest
    /\ rows = <<>>
    /\ result = NoValue
    /\ error = NoError
    /\ locals = NoValue
    /\ calls = [c \in Callers |-> IdleFrame]

NextConcurrent ==
    \/ \E c \in Callers, t \in {Audience, Funnel}, a \in ConcurrentArgs : StartCall(c, t, a)
    \/ \E c \in Callers, b \in ConcurrentBodies : ReceiveCall(c, b)

SpecConcurrent == InitConcurrent /\ [][NextConcurrent]_vars

\* what an invocation of t with the arguments a returns when it runs alone
\* and its request is answered with the rows rws
AloneResult(t, a, rws) ==
    Analyse(t, ZodParse(t, a).value, rws,
            accountIdOrThrow(ZodParse(t, a).value.ad_account_id, DefaultAccount).id)

\* C20: tool invocations share no mutable state: with two invocations in
\* flight on one MetaAdsTools, interleaved at their awaits in any order, each
\* returns exactly the result it would return alone on its own rows, and an
\* invocation that fails returns nothing.
C20_Isolation ==
    pc = "serving" =>
        \A c \in Callers :
            /\ calls[c].pc = "done" =>
                   calls[c].result = AloneResult(calls[c].tool, calls[c].args, calls[c].rows)
            /\ calls[c].pc # "done" => calls[c].result = NoValue

\* the first invocation returned its two-row breakdown by age while the
\* second, of the funnel, was still awaiting its response
C20_Witness ==
    /\ pc = "serving"
    /\ calls[1].pc = "done"
    /\ calls[1].tool = Audience
    /\ Len(calls[1].rows) = 2
    /\ Len(calls[1].result.analysis.ranked) = 1
    /\ calls[2].pc = "awaiting"
    /\ calls[2].tool = Funnel
    /\ calls[1].input.breakdowns = <<"age">>

(***************************************************************************)
(* round2 applied to one number.  The inputs are the multiples of 1/8,     *)
(* which a double holds exactly and whose product with 100 is exact, and   *)
(* +/-0.015, whose product with 100 is exactly +/-1.5 in double            *)
(* arithmetic: on these the exact arithmetic of the model is that of the   *)
(* code.  An odd multiple of 1/8 lies halfway between two hundredths.      *)
(***************************************************************************)
MaxEighths == 25

Round2Inputs ==
    {Dec(e, 8) : e \in -MaxEighths..MaxEighths} \cup {Dec(15, 1000), Dec(-15, 1000)}

InitRound2 ==
    /\ pc = "ready"
    /\ tool = "round2"
    /\ input \in Round2Inputs
    /\ cfg = <<>>
    /\ args = NoValue
    /\ request = NoRequest
    /\ rows = <<>>
    /\ result = NoValue
    /\ error = NoError
    /\ locals = NoValue
    /\ calls = <<>>

CallRound2 ==
    /\ pc = "ready"
    /\ tool = "round2"
    /\ result' = round2(input)
    /\ pc' = "done"
    /\ UNCHANGED <<cfg, tool, args, input, request, rows, error, locals, calls>>

NextRound2 == CallRound2

SpecRound2 == InitRound2 /\ [][NextRound2]_vars

\* the hundredth nearest to the plain number x, a tie going away from zero
HalfAwayFromZero(x) == Dec(Sgn(x.lo) * NearestHundredths(Abs(x.lo), x.d), 100)

\* C21: round2 rounds to two decimal places with ties away from zero, for
\* negative as for positive inputs: a number halfway between two hundredths
\* goes to the one of larger absolute value (round2(-0.015) = -0.02), and
\* round2(-n) = -round2(n).
C21_TiesAwayFromZero ==
    (tool = "round2" /\ pc = "done") =>
        /\ result = HalfAwayFromZero(input)
        /\ round2(Neg(input)) = Neg(result)

(***************************************************************************)
(* The per-entity analyses over entities without purchases                 *)
(***************************************************************************)
Creative == "analyze_creative_effectiveness"

EntityTools == {Campaign, Creative, Allocation}

\* entities without an actions list, with a purchase count of 0 (a number, a
\* string) at several spends, and entities with purchases
EntityRows ==
    {ReportRow("1", JsString(<<"1", "0">>), JsUndefined, JsUndefined, Absent),
     ReportRow("2", JsString(<<"1", "0", "0">>), JsNumber(Zero), JsString(<<"5", "0">>), Absent),
     ReportRow("3", JsString(<<"0">>), JsString(<<"0">>), JsUndefined, Absent),
     ReportRow("4", JsString(<<"1", "0">>), JsNumber(Whole(2)), JsString(<<"5", "0">>), Absent),
     ReportRow("5", JsString(<<"1", "0", "0">>), JsNumber(Whole(1)), JsUndefined, Absent)}

EntityBodies == {ErrorBody} \cup {DataBody(rws) : rws \in Reports(EntityRows, MaxRows)}

EntityArgs ==
    {[NoArgs EXCEPT !.date_range = TRUE, !.performance_thresholds = th] :
        th \in {[cpa |-> Undefined, roas |-> Undefined], [cpa |-> Zero, roas |-> Undefined],
                [cpa |-> Whole(10), roas |-> Undefined],
                [cpa |-> Whole(1000), roas |-> Undefined],
                [cpa |-> Undefined, roas |-> One]}}

NextEntities ==
    \/ \E t \in EntityTools, a \in EntityArgs : Invoke(t, a)
    \/ \E b \in EntityBodies : Respond(b)

SpecEntities == InitRanking /\ [][NextEntities]_vars

\* the ids of the rows whose extracted purchase count is 0
ZeroPurchaseIds == {rows[i].id : i \in {j \in 1..Len(rows) : ScanPurchase(rows[j].actions, 1) = Zero}}

\* the entities the finished analysis reports, one per row
ReportedEntities ==
    IF tool = Campaign THEN result.analysis.rankedByCpa
    ELSE IF tool = Creative THEN result.analysis.items
    ELSE result.analysis.allocation

\* C22: in analyze_campaign_performance, analyze_creative_effectiveness and
\* get_spend_allocation_insights an entity whose extracted purchase count is
\* 0 has neither conversions nor cpa, whatever its spend; in
\* analyze_campaign_performance it is therefore ranked after every entity
\* with a cpa, and it is an underperformer whenever a cpa threshold is set,
\* whatever the threshold.
C22_ZeroPurchasesNoCpa ==
    (pc = "done" /\ tool \in EntityTools) =>
        /\ Len(ReportedEntities) = Len(rows)
        /\ \A i \in 1..Len(ReportedEntities) :
               ReportedEntities[i].id \in ZeroPurchaseIds =>
                   /\ ReportedEntities[i].kpis.conversions = Undefined
                   /\ ReportedEntities[i].kpis.cpa = Undefined
        /\ tool = Campaign =>
               /\ \A i, j \in 1..Len(rows) :
                      (/\ result.analysis.rankedByCpa[i].id \in ZeroPurchaseIds
                       /\ result.analysis.rankedByCpa[j].kpis.cpa # Undefined) => j < i
               /\ (input.performance_thresholds.cpa # Undefined /\ Len(rows) <= 5) =>
                      \A i \in 1..Len(rows) :
                          rows[i].id \in ZeroPurchaseIds =>
                              \E k \in 1..Len(result.recommendations.reallocate_budget_from) :
                                  result.recommendations.reallocate_budget_from[k].id = rows[i].id

\* a campaign without purchases reported before one with a cpa of 5, under a
\* cpa threshold of 1000: ranked second, and the only underperformer
C22_Witness ==
    /\ pc = "done"
    /\ tool = Campaign
    /\ input.performance_thresholds.cpa = Whole(1000)
    /\ [i \in 1..Len(rows) |-> rows[i].id] = <<"1", "4">>
    /\ [i \in 1..2 |-> result.analysis.rankedByCpa[i].id] = <<"4", "1">>
    /\ result.analysis.rankedByCpa[1].kpis.cpa = Whole(5)
    /\ [i \in 1..Len(result.recommendations.reallocate_budget_from) |->
           result.recommendations.reallocate_budget_from[i].id] = <<"1">>

(***************************************************************************)
(* get_ad_delivery_insights over reports by platform and position          *)
(***************************************************************************)
\* the rows of seven placements, each with purchases and revenue
DeliveryBase ==
    [i \in 1..7 |->
        BucketRow(JsString(<<"1">>), JsNumber(Whole(2)), JsString(<<"5", "0">>),
                  <<Str(<<"facebook">>), Str(<<"Facebook">>), Str(<<"instagram">>),
                    Str(<<"facebook">>), Str(<<"messenger">>), Absent,
                    Str(<<"audience_network">>)>>[i],
                  <<Str(<<"feed">>), Str(<<"story">>), Str(<<"feed">>), Str(<<"reels">>),
                    Absent, Absent, Str(<<"feed">>)>>[i])]

\* short reports in every order and with repeated placements, and the long
\* ones that are a stretch of the seven
DeliveryBodies ==
    {ErrorBody}
        \cup {DataBody(rws) : rws \in Reports({DeliveryBase[i] : i \in 1..7}, MaxRows)}
        \cup {DataBody(SubSeq(DeliveryBase, i, j)) : i \in 1..7, j \in 1..7}

DeliveryArgs ==
    {[NoArgs EXCEPT !.date_range = TRUE, !.placements = pl] :
        pl \in {<<>>, << <<"Facebook">> >>, << <<"instagram">>, <<"messenger">> >>}}

NextDelivery ==
    \/ \E a \in DeliveryArgs : Invoke(Delivery, a)
    \/ \E b \in DeliveryBodies : Respond(b)

SpecDelivery == InitRanking /\ [][NextDelivery]_vars

DeliveryDone == pc = "done" /\ tool = Delivery

\* the platform and position of a row, a missing value read as ""
PlacementOf(r) ==
    <<IF r.publisher_platform.has THEN r.publisher_platform.s ELSE <<>>,
      IF r.platform_position.has THEN r.platform_position.s ELSE <<>> >>

\* the distinct placements of the first n rows, each where it first occurs
RECURSIVE FirstOccurrences(_, _)
FirstOccurrences(rws, n) ==
    IF n = 0 THEN <<>>
    ELSE IF \E i \in 1..(n - 1) : PlacementOf(rws[i]) = PlacementOf(rws[n])
    THEN FirstOccurrences(rws, n - 1)
    ELSE Append(FirstOccurrences(rws, n - 1), PlacementOf(rws[n]))

\* those of them that pass the placements filter of the input
ExpectedPlacements ==
    SelectSeq(FirstOccurrences(rows, Len(rows)),
              LAMBDA p : \/ input.placements = <<>>
                         \/ \E i \in 1..Len(input.placements) :
                                ToLowerCase(input.placements[i]) = ToLowerCase(p[1]))

\* the number of items remaining after the filter
ItemCount == Len(result.analysis.items)

\* C25: every item of get_ad_delivery_insights has a KPI set computed
\* without conversions or revenue, so without roas; the items stand in the
\* order in which their keys first occurred in the rows; shift_impressions_to
\* is the first three and reduce_in the last three of them, which overlap
\* when one to five items remain after the placements filter.
C25_DeliveryOrder ==
    DeliveryDone =>
        /\ ItemCount = Len(ExpectedPlacements)
        /\ \A i \in 1..ItemCount :
               /\ <<result.analysis.items[i].platform, result.analysis.items[i].position>>
                      = ExpectedPlacements[i]
               /\ result.analysis.items[i].kpis.roas = Undefined
               /\ result.analysis.items[i].kpis.conversions = Undefined
               /\ result.analysis.items[i].kpis.revenue = Undefined
        /\ result.recommendations.shift_impressions_to =
               [i \in 1..(IF ItemCount < 3 THEN ItemCount ELSE 3) |-> result.analysis.items[i]]
        /\ result.recommendations.reduce_in =
               [i \in 1..(IF ItemCount < 3 THEN ItemCount ELSE 3) |->
                   result.analysis.items[i + (IF ItemCount < 3 THEN 0 ELSE ItemCount - 3)]]
        /\ ItemCount \in 1..5 <=>
               \E i \in 1..Len(result.recommendations.shift_impressions_to) :
                   \E j \in 1..Len(result.recommendations.reduce_in) :
                       result.recommendations.shift_impressions_to[i]
                           = result.recommendations.reduce_in[j]

\* four rows of four placements with the filter "Facebook": the three
\* facebook items remain, in the order of their rows, and make up both lists
C25_Witness ==
    /\ DeliveryDone
    /\ input.placements = << <<"Facebook">> >>
    /\ rows = SubSeq(DeliveryBase, 1, 4)
    /\ [i \in 1..ItemCount |-> result.analysis.items[i].position]
           = << <<"feed">>, <<"story">>, <<"reels">> >>
    /\ result.recommendations.reduce_in = result.recommendations.shift_impressions_to

====
